---------------------------- MODULE Spec2Model ----------------------------
(***************************************************************************)
(* iTrax push notifications: the service worker (static/sw.js, "PushAgent")*)
(* and the page controller (static/js/notifications.js,                    *)
(* "NotificationSystem").  The two run in separate browser contexts and    *)
(* share no memory, so each has its own specifications over its own        *)
(* variables.  For the worker: SWSpec (push and notificationclick events   *)
(* of the activated worker) and SWLifeSpec (install, activation, fetch and *)
(* sync events as well).  For the controller: Spec / FairSpec (init(), the *)
(* push bootstrap, the count poll, the dropdown), ListSpec (the dropdown   *)
(* list with the mark-read operations), TokenSpec (the same on pages with  *)
(* and without a csrf token), RaceSpec (the dropdown clicked again while   *)
(* list and mark-read requests are out), TabsSpec (two tabs polling one    *)
(* server count), LogSpec (what the operations write to the console),      *)
(* TimeSpec (getTimeAgo) and IconSpec (getNotificationIcon).               *)
(***************************************************************************)
EXTENDS Integers, Sequences, FiniteSets, TLC

(***************************************************************************)
(* Bounds of the model.                                                    *)
(***************************************************************************)
MaxPush == 2           \* push events delivered to the worker
MaxClick == 2          \* notificationclick events delivered to the worker
MaxTicks == 2          \* firings of the controller's 30 s interval timer
MaxExtSubscribe == 1   \* subscribeToPush() calls made from outside init()
MaxOpens == 1          \* clicks on the notification dropdown
MaxMarks == 1          \* markNotificationRead() calls
MaxMarkAll == 1        \* markAllNotificationsRead() calls
MaxTabPolls == 1       \* firings of the interval timers of the tabs
MaxTabMarks == 1       \* markNotificationRead() calls in the tabs
MaxServerChanges == 1  \* changes of the server's unread count
MaxSettled == 2        \* settled operations the console is looked at for
MaxReopens == 2        \* clicks on the dropdown where it is opened again

(***************************************************************************)
(* JavaScript values, as far as the handlers look at them.  Every value is *)
(* a record of one shape: t is the type tag, s the text of a string, n the *)
(* magnitude of a number, b the truth of a boolean, f the own enumerable   *)
(* properties of an object or array (property name -> leaf value).         *)
(***************************************************************************)
NoProps == [k \in {} |-> 0]

JsUndefined == [t |-> "undefined", s |-> "", n |-> 0, b |-> FALSE, f |-> NoProps]
JsNull == [t |-> "null", s |-> "", n |-> 0, b |-> FALSE, f |-> NoProps]
JsStr(x) == [t |-> "string", s |-> x, n |-> 0, b |-> FALSE, f |-> NoProps]
JsNum(x) == [t |-> "number", s |-> "", n |-> x, b |-> FALSE, f |-> NoProps]
JsBool(x) == [t |-> "boolean", s |-> "", n |-> 0, b |-> x, f |-> NoProps]
JsArr(props) == [t |-> "array", s |-> "", n |-> 0, b |-> FALSE, f |-> props]
JsObj(props) == [t |-> "object", s |-> "", n |-> 0, b |-> FALSE, f |-> props]

\* ToBoolean: undefined, null, false, 0 and "" are falsy; every object and
\* array (the empty ones too) is truthy.
Truthy(v) ==
    CASE v.t = "undefined" -> FALSE
      [] v.t = "null" -> FALSE
      [] v.t = "boolean" -> v.b
      [] v.t = "number" -> v.n # 0
      [] v.t = "string" -> v.s # ""
      [] OTHER -> TRUE

\* a || b
JsOr(a, b) == IF Truthy(a) THEN a ELSE b

Digits == <<"0", "1", "2", "3", "4", "5", "6", "7", "8", "9">>

\* ToString, which the notification API applies to title, body and icon
\* (DOMString / USVString members).  An array prints as its elements joined
\* by commas, so the empty array prints as the empty string.
RECURSIVE JsToString(_)
JsToString(v) ==
    CASE v.t = "undefined" -> "undefined"
      [] v.t = "null" -> "null"
      [] v.t = "boolean" -> IF v.b THEN "true" ELSE "false"
      [] v.t = "number" -> IF v.n < 10 THEN Digits[v.n + 1] ELSE "number"
      [] v.t = "string" -> v.s
      [] v.t = "array" ->
           \* arrays of the model hold at most one element
           IF DOMAIN v.f = {} THEN "" ELSE JsToString(v.f["0"])
      [] OTHER -> "[object Object]"

\* data.key: reading a property of null or undefined throws a TypeError;
\* a primitive has none of the properties the handlers read.
CanReadProps(v) == v.t \notin {"undefined", "null"}

JsGet(v, key) ==
    IF v.t \in {"object", "array"} /\ key \in DOMAIN v.f THEN v.f[key]
    ELSE JsUndefined

\* The properties an object spread {...v} copies: own enumerable properties
\* of an object or array, the characters of a string by index (strings of the
\* model that get spread hold one character), nothing for null, undefined,
\* numbers and booleans.
SpreadProps(v) ==
    CASE v.t \in {"object", "array"} -> v.f
      [] v.t = "string" /\ v.s # "" -> ("0" :> JsStr(v.s))
      [] OTHER -> NoProps

\* Mutant of Merge: the first operand wins on a shared key.
MergeFirstWins(a, b) ==
    [k \in DOMAIN a \cup DOMAIN b |-> IF k \in DOMAIN a THEN a[k] ELSE b[k]]

\* { ...a, ...b } on property maps: b's value wins on a shared key.
Merge(a, b) ==
    [k \in DOMAIN a \cup DOMAIN b |-> IF k \in DOMAIN b THEN b[k] ELSE a[k]]

(***************************************************************************)
(* PushAgent: static/sw.js                                                 *)
(***************************************************************************)
VARIABLES
    swPushes,    \* push events handled so far
    swShown,     \* showNotification calls made so far
    swThrown,    \* exceptions that escaped a handler so far
    swOpen,      \* notifications on display (shown and not yet closed), each
                 \* by the names of the actions it offers
    lastPush,    \* the last push event and what its handler did
    swClicks,    \* notificationclick events handled so far
    lastClick,   \* the last notificationclick event and what its handler did
    swState,     \* the worker's lifecycle state
    swCaches,    \* the origin's cache storage
    installLog,  \* the install event and how its waitUntil promise settled
    lastFetch,   \* the last fetch event and what its handler did
    lastSync     \* the last sync event and what its handler did

swVars ==
    <<swPushes, swShown, swThrown, swOpen, lastPush, swClicks, lastClick,
      swState, swCaches, installLog, lastFetch, lastSync>>

DefaultTitle == "iTrax Notification"
DefaultBody == "You have a new notification"
DefaultIcon == "/static/images/favicon.ico"
DefaultBadge == "/static/images/badge.png"
DefaultVibrate == <<200, 100, 200>>
DefaultActions ==
    << [action |-> "explore", title |-> "View Details",
        icon |-> "/static/images/checkmark.png"],
       [action |-> "close", title |-> "Close",
        icon |-> "/static/images/xmark.png"] >>

\* const options = { body, icon, badge, vibrate, data, actions }; title is
\* not set yet.
DefaultOptions(now) ==
    [ title |-> JsUndefined,
      body |-> JsStr(DefaultBody),
      icon |-> JsStr(DefaultIcon),
      badge |-> DefaultBadge,
      vibrate |-> DefaultVibrate,
      data |-> ("dateOfArrival" :> JsNum(now) @@ "primaryKey" :> JsNum(1)),
      actions |-> DefaultActions ]

\* The actions a payload of the model asks for in its actions field, as a
\* payload value and as showNotification would take them.
PayloadActionsValue ==
    JsArr("0" :> JsObj("action" :> JsStr("reply") @@ "title" :> JsStr("Reply")))

PayloadActions == << [action |-> "reply", title |-> "Reply", icon |-> ""] >>

\* Mutant of PushJsonBranch: the payload's actions replace the default ones.
PushJsonBranchPayloadActions(options, data) ==
    [options EXCEPT
        !.title = JsOr(JsGet(data, "title"), JsStr(DefaultTitle)),
        !.body = JsOr(JsGet(data, "body"),
                      JsOr(JsGet(data, "message"), JsStr(DefaultBody))),
        !.icon = JsOr(JsGet(data, "icon"), JsStr(DefaultIcon)),
        !.data = Merge(options.data, SpreadProps(data)),
        !.actions = IF JsGet(data, "actions") = PayloadActionsValue
                    THEN PayloadActions ELSE @]

\* The try block once event.data.json() has returned data and data.title
\* could be read.
PushJsonBranch(options, data) ==
    [options EXCEPT
        !.title = JsOr(JsGet(data, "title"), JsStr(DefaultTitle)),
        !.body = JsOr(JsGet(data, "body"),
                      JsOr(JsGet(data, "message"), JsStr(DefaultBody))),
        !.icon = JsOr(JsGet(data, "icon"), JsStr(DefaultIcon)),
        !.data = Merge(options.data, SpreadProps(data))]

\* Mutant of PushTextBranch: the payload text is not used for the body.
PushTextBranchNoText(options, text) ==
    [options EXCEPT !.title = JsStr(DefaultTitle)]

\* The catch block: json() threw a SyntaxError or data.title a TypeError.
PushTextBranch(options, text) ==
    [options EXCEPT
        !.title = JsStr(DefaultTitle),
        !.body = JsOr(JsStr(text), JsStr(DefaultBody))]

\* Mutant of PushNoDataBranch: the title is left unset.
PushNoDataBranchNoTitle(options) == options

\* The else block: event.data is null.
PushNoDataBranch(options) ==
    [options EXCEPT !.title = JsStr(DefaultTitle)]

\* PushMessageData.json() is JSON.parse of the payload text.
ParseFail == [ok |-> FALSE, val |-> JsUndefined]
ParseOk(v) == [ok |-> TRUE, val |-> v]

JsonParse(text) ==
    CASE text = "null" -> ParseOk(JsNull)
      [] text = "0" -> ParseOk(JsNum(0))
      [] text = "7" -> ParseOk(JsNum(7))
      [] text = "true" -> ParseOk(JsBool(TRUE))
      [] text = "\"S\"" -> ParseOk(JsStr("S"))
      [] text = "[]" -> ParseOk(JsArr(NoProps))
      [] text = "[7]" -> ParseOk(JsArr("0" :> JsNum(7)))
      [] text = "{}" -> ParseOk(JsObj(NoProps))
      [] OTHER -> ParseFail

\* The statements of the push listener up to the showNotification call:
\* the options it ends with.  Nothing before the throw points of the try
\* block assigns to options, so the catch block starts from the defaults.
PushOptions(ev, now) ==
    LET options == DefaultOptions(now) IN
    IF ev.present
    THEN IF ev.parsed.ok /\ CanReadProps(ev.parsed.val)
         THEN PushJsonBranch(options, ev.parsed.val)
         ELSE PushTextBranch(options, ev.text)
    ELSE PushNoDataBranch(options)

\* self.registration.showNotification(title, options): what goes on display.
\* title, body and icon are converted to strings; an options.title is not a
\* member of NotificationOptions and is ignored.
ShowNotification(title, options) ==
    [ title |-> JsToString(title),
      body |-> JsToString(options.body),
      icon |-> JsToString(options.icon),
      badge |-> options.badge,
      vibrate |-> options.vibrate,
      data |-> options.data,
      actions |-> options.actions ]

\* Mutant of PushHandler: showNotification is called and its promise is
\* dropped instead of being handed to event.waitUntil.
PushHandlerUnheld(ev, now) ==
    LET options == PushOptions(ev, now) IN
    [ threw |-> FALSE,
      options |-> <<options>>,
      shown |-> <<ShowNotification(options.title, options)>>,
      held |-> 0 ]

\* The push listener as a whole: the showNotification calls it makes (with
\* the options passed), the promises it hands to event.waitUntil and whether
\* an exception escapes it.
PushHandler(ev, now) ==
    LET options == PushOptions(ev, now) IN
    [ threw |-> FALSE,
      options |-> <<options>>,
      shown |-> <<ShowNotification(options.title, options)>>,
      held |-> 1 ]

\* Mutant of ClickHandler: the notification is closed after the window is
\* opened.
ClickHandlerClosesLast(action) ==
    (IF action = "explore"
     THEN <<[op |-> "openWindow", url |-> "/notifications/all", held |-> TRUE]>>
     ELSE IF action = "close"
     THEN <<>>
     ELSE <<[op |-> "openWindow", url |-> "/", held |-> TRUE]>>)
    \o <<[op |-> "close", url |-> "", held |-> FALSE]>>

\* Mutant of ClickHandler: a click outside the two action buttons opens
\* nothing.
ClickHandlerBodyIgnored(action) ==
    <<[op |-> "close", url |-> "", held |-> FALSE]>>
    \o (IF action = "explore"
        THEN <<[op |-> "openWindow", url |-> "/notifications/all", held |-> TRUE]>>
        ELSE <<>>)

\* The notificationclick listener: what it does, in order.  A window opening
\* is handed to event.waitUntil (held).
ClickHandler(action) ==
    <<[op |-> "close", url |-> "", held |-> FALSE]>>
    \o (IF action = "explore"
        THEN <<[op |-> "openWindow", url |-> "/notifications/all", held |-> TRUE]>>
        ELSE IF action = "close"
        THEN <<>>
        ELSE <<[op |-> "openWindow", url |-> "/", held |-> TRUE]>>)

\* Mutant of urlsToCache: the manifest also lists the unread-count route.
urlsToCacheWithCount ==
    <<"/", "/static/css/bootstrap.min.css", "/static/js/bootstrap.bundle.min.js",
      "/static/js/notifications.js", "/api/notifications/count">>

CACHE_NAME == "itrax-v1"

urlsToCache ==
    <<"/", "/static/css/bootstrap.min.css",
      "/static/js/bootstrap.bundle.min.js", "/static/js/notifications.js">>

Range(s) == {s[i] : i \in DOMAIN s}

\* seq without its i-th element.
Without(seq, i) ==
    [j \in 1..(Len(seq) - 1) |-> IF j < i THEN seq[j] ELSE seq[j + 1]]

\* Cache storage: the names of the caches that exist and, per cache, the
\* URLs it holds a response for.
NoCaches == [names |-> {}, entries |-> {}]

ManifestEntries == {[cache |-> CACHE_NAME, url |-> u] : u \in Range(urlsToCache)}

\* Mutant of InstallHandler: every asset is added on its own and a failed
\* fetch is skipped.
InstallHandlerBestEffort(store, fetched, storage) ==
    IF storage = "openRejects"
    THEN [resolved |-> FALSE, store |-> store]
    ELSE LET opened == [store EXCEPT !.names = @ \cup {CACHE_NAME}] IN
         IF storage = "ok"
         THEN [resolved |-> TRUE,
               store |-> [opened EXCEPT !.entries =
                             @ \cup {e \in ManifestEntries : e.url \in fetched}]]
         ELSE [resolved |-> FALSE, store |-> opened]

\* The install listener: caches.open(CACHE_NAME).then(cache =>
\* cache.addAll(urlsToCache)), handed to event.waitUntil.  fetched is the
\* set of assets the network answers with an ok response; addAll stores
\* all of them or, when one fetch or the write fails, nothing, and rejects.
\* The result is how the promise settles and the cache storage it leaves.
InstallHandler(store, fetched, storage) ==
    IF storage = "openRejects"
    THEN [resolved |-> FALSE, store |-> store]
    ELSE LET opened == [store EXCEPT !.names = @ \cup {CACHE_NAME}] IN
         IF Range(urlsToCache) \subseteq fetched /\ storage = "ok"
         THEN [resolved |-> TRUE,
               store |-> [opened EXCEPT !.entries = @ \cup ManifestEntries]]
         ELSE [resolved |-> FALSE, store |-> opened]

\* caches.match(request): the response stored for the request in any cache,
\* or none.  Only GET requests match, and the URL is compared whole (query
\* string included).
CacheMatch(store, req) ==
    IF req.method = "GET" /\ \E e \in store.entries : e.url = req.url
    THEN <<[from |-> "cache", url |-> req.url, ok |-> TRUE]>>
    ELSE <<>>

\* fetch(request): the network's answer, or a network error.
NetworkFetch(req, net) == [from |-> "network", url |-> req.url, ok |-> net = "up"]

\* Mutant of FetchHandler: the network is asked first and the cache only
\* when the network fails.
FetchHandlerNetworkFirst(store, req, net) ==
    LET response == CacheMatch(store, req) IN
    IF net = "up" \/ Len(response) = 0
    THEN [network |-> <<req>>, response |-> NetworkFetch(req, net), puts |-> {}]
    ELSE [network |-> <<req>>, response |-> response[1], puts |-> {}]

\* Mutant of FetchHandler: a response fetched from the network is also put
\* into the cache.
FetchHandlerCaching(store, req, net) ==
    LET response == CacheMatch(store, req) IN
    IF Len(response) > 0
    THEN [network |-> <<>>, response |-> response[1], puts |-> {}]
    ELSE [network |-> <<req>>, response |-> NetworkFetch(req, net),
          puts |-> IF net = "up" THEN {[cache |-> CACHE_NAME, url |-> req.url]}
                   ELSE {}]

\* The fetch listener: response || fetch(event.request).  The result is the
\* network requests made, the response handed to respondWith and the cache
\* entries written (none).
FetchHandler(store, req, net) ==
    LET response == CacheMatch(store, req) IN
    IF Len(response) > 0
    THEN [network |-> <<>>, response |-> response[1], puts |-> {}]
    ELSE [network |-> <<req>>, response |-> NetworkFetch(req, net), puts |-> {}]

\* doBackgroundSync(): resolves at once.
DoBackgroundSync == "resolved"

\* The sync listener: the promises it hands to event.waitUntil.
SyncHandler(tag) == IF tag = "background-sync" THEN <<DoBackgroundSync>> ELSE <<>>

(***************************************************************************)
(* The push events of the model.  A payload is its text and what           *)
(* JSON.parse makes of it; an object payload is given by its properties    *)
(* (its text, which the listener never reads once parsing succeeded, is    *)
(* abbreviated).                                                           *)
(***************************************************************************)
NoDataEvent == [present |-> FALSE, text |-> "", parsed |-> ParseFail]

RawTexts == {"", "not json{", "null", "0", "7", "true", "\"S\"", "[]", "[7]", "{}"}

TextEvents == {[present |-> TRUE, text |-> x, parsed |-> JsonParse(x)] : x \in RawTexts}

\* Property values tried in object payloads; JsUndefined stands for a
\* property the payload does not have.
PayloadChoices ==
    [ title : {JsUndefined, JsNull, JsStr(""), JsStr("Hi"), JsNum(0),
               JsArr(NoProps)},
      body : {JsUndefined, JsStr(""), JsStr("B")},
      message : {JsUndefined, JsStr("M")},
      icon : {JsUndefined, JsStr("/i.png")},
      primaryKey : {JsUndefined, JsNum(9)} ]

\* Payloads with fields named as the options of showNotification are.
OptionNamedChoices ==
    [ title : {JsStr("Hi")},
      actions : {JsUndefined, PayloadActionsValue},
      badge : {JsUndefined, JsStr("/b.png")},
      vibrate : {JsUndefined, JsArr("0" :> JsNum(50))} ]

PropsOf(c) == [k \in {x \in DOMAIN c : c[x] # JsUndefined} |-> c[k]]

ObjectEvents ==
    {[present |-> TRUE, text |-> "{...}", parsed |-> ParseOk(JsObj(PropsOf(c)))] :
        c \in PayloadChoices}
    \cup
    {[present |-> TRUE, text |-> "{...}", parsed |-> ParseOk(JsObj(PropsOf(c)))] :
        c \in OptionNamedChoices}

PushEvents == {NoDataEvent} \cup TextEvents \cup ObjectEvents

\* Date.now() readings tried.
ClockReadings == {0, 1}

\* event.action of a click on a notification: the name of one of the
\* actions the notification offers, or the empty string for a click on its
\* body.
ActionNames(n) == [i \in DOMAIN n.actions |-> n.actions[i].action]

ClickActions(names) == {""} \cup Range(names)

NoPush ==
    [event |-> NoDataEvent, now |-> 0, threw |-> FALSE, options |-> <<>>,
     shown |-> <<>>, held |-> 0]

NoClick == [action |-> "", did |-> <<>>]

\* How the network answers the install's asset requests, and whether the
\* cache storage can be opened and written.
AssetOutcomes == SUBSET Range(urlsToCache)

StorageOutcomes == {"ok", "openRejects", "putRejects"}

NotInstalled == [ran |-> FALSE, fetched |-> {}, storage |-> "ok", resolved |-> FALSE]

Installed ==
    [ran |-> TRUE, fetched |-> Range(urlsToCache), storage |-> "ok", resolved |-> TRUE]

\* The API routes the controller requests.
ApiUrls ==
    {"/api/notifications/count", "/api/notifications?unread_only=false&limit=10",
     "/api/push/vapid-public-key", "/api/push/subscribe",
     "/api/notifications/1/read", "/api/notifications/mark-all-read"}

\* The requests of the controlled page that are tried: two manifest assets,
\* the root with a query string, the API routes.
FetchRequests ==
    [method : {"GET", "POST", "PUT"},
     url : {"/", "/static/js/notifications.js", "/?page=2"} \cup ApiUrls]

NetworkStates == {"up", "down"}

NoFetch ==
    [ran |-> FALSE, req |-> [method |-> "GET", url |-> "/"], net |-> "up",
     network |-> <<>>, response |-> [from |-> "none", url |-> "", ok |-> FALSE]]

SyncTags == {"background-sync", "other"}

NoSync == [ran |-> FALSE, tag |-> "", held |-> <<>>]


(***************************************************************************)
(* NotificationSystem: static/js/notifications.js                          *)
(*                                                                         *)
(* One controller on one page.  JavaScript runs each task to its next      *)
(* await, so an action is the code between two awaits.  init() is one      *)
(* chain of awaits (initPc); the subscribeToPush() call it awaits, or one  *)
(* made from outside, is the chain subPc; every loadNotificationCount()    *)
(* and loadNotifications() call is a request in flight.                    *)
(***************************************************************************)
VARIABLES
    page,            \* what the page and browser offer: badge, dropdown, list
                     \* elements; the service worker and push APIs
    permission,      \* Notification.permission
    browserSub,      \* the push manager holds a subscription
    serverSubs,      \* subscription registrations the server accepted
    notificationCount,          \* this.notificationCount
    pushSupported,              \* this.pushSupported
    serviceWorkerRegistration,  \* this.serviceWorkerRegistration is set
    initPc,          \* where init() stands
    subPc,           \* where the running subscribeToPush() stands
    subCaller,       \* who awaits it: "init", "ext" or "none"
    bootFail,        \* the push bootstrap failures init() has met
    subLog,          \* one record per subscribeToPush() call, in call order
    extCalls,        \* subscribeToPush() calls made from outside so far
    countInFlight,   \* /api/notifications/count requests without a response
    countRequests,   \* /api/notifications/count requests issued so far
    ticks,           \* timer firings so far
    timerStarted,    \* setInterval has been called
    listenerAttached,\* the dropdown has its click listener
    badgeText,       \* badge.textContent
    badgeDisplay,    \* badge.style.display
    lastSuccess,     \* unread_count of the last success response processed
    lastPoll,        \* count responses processed so far (n), and whether the
                     \* last one was a success response (ok)
    pattern,         \* how far the responses processed so far follow
                     \* PollExample (PatternOff once they differ)
    listInFlight,    \* /api/notifications requests without a response
    opens,           \* dropdown clicks so far
    listView,        \* content of the notificationList element
    listRenders,     \* displayNotifications calls that wrote the list
    lastList,        \* the records of the last list response rendered
    marks,           \* markNotificationRead() calls so far
    markInFlight,    \* per record id, mark-read requests without a response
    lastMark,        \* mark-read responses processed so far (n), the id and
                     \* the outcome of the last one
    markAlls,        \* markAllNotificationsRead() calls so far
    markAllInFlight, \* mark-all-read requests without a response
    lastMarkAll,     \* mark-all-read responses processed so far (n) and the
                     \* outcome of the last one
    requested,       \* the requests (method, route) issued so far
    timeAgo,         \* the last getTimeAgo() call: the clock, the date, the
                     \* label returned
    lastIcon,        \* the last getNotificationIcon() call: the arguments and
                     \* the icon returned
    csrf_token,      \* this.csrf_token
    csrfSent,        \* per request sent with a headers option: its route and
                     \* the header lines the browser put on the wire
    uncaught,        \* the operations that ended in an uncaught exception or
                     \* rejection
    initLog,         \* the calls init() has made, in order
    serverRead,      \* the record ids the server has marked read (followed
                     \* under RaceSpec)
    listSnaps,       \* per list request without a response, the ids the
                     \* server had marked read when the request was issued
    listOk,          \* whether the last list response said success
                     \* (observed under RaceSpec)
    tabs,            \* per browser tab, a controller of its own: what its badge
                     \* shows and the count requests it has out
    serverUnread,    \* the server's unread count of the user
    serverVersion,   \* how often the server's unread count has changed
    tabCalls,        \* timer firings and markNotificationRead() calls in the
                     \* tabs so far
    consoleLog       \* the operations that settled (op, outcome), with
                     \* whether console.error was called and the UI touched

ctlVars ==
    <<page, permission, browserSub, serverSubs, notificationCount, pushSupported,
      serviceWorkerRegistration, initPc, subPc, subCaller, bootFail, subLog,
      extCalls, countInFlight, countRequests, ticks, timerStarted,
      listenerAttached, badgeText, badgeDisplay, lastSuccess, lastPoll, pattern,
      listInFlight, opens, listView, listRenders, lastList, marks,
      markInFlight, lastMark, markAlls, markAllInFlight, lastMarkAll, requested,
      timeAgo, lastIcon, csrf_token, csrfSent, uncaught, initLog, serverRead,
      listSnaps, listOk>>

srvVars == <<tabs, serverUnread, serverVersion, tabCalls, consoleLog>>

vars == <<swVars, ctlVars, srvVars>>

bootVars ==
    <<permission, browserSub, serverSubs, pushSupported,
      serviceWorkerRegistration, initPc, subPc, subCaller, bootFail, subLog,
      extCalls>>
pollVars == <<notificationCount, badgeText, badgeDisplay, lastSuccess, lastPoll, pattern>>
listVars ==
    <<listInFlight, opens, listView, listRenders, lastList, listSnaps, listOk>>
markVars ==
    <<marks, markInFlight, lastMark, markAlls, markAllInFlight, lastMarkAll,
      serverRead>>

\* unread_count values the server answers with
CountValues == {0, 3, 5}

\* notification lists the server answers with (of a record, its id and its
\* is_read flag)
ListResponses ==
    { <<>>,
      <<[id |-> 1, is_read |-> FALSE]>>,
      <<[id |-> 2, is_read |-> FALSE], [id |-> 1, is_read |-> TRUE]>> }

\* record ids markNotificationRead() is called with
MarkableIds == {1, 2}

\* The requests of the controller.
KeyRequest == [method |-> "GET", route |-> "/api/push/vapid-public-key"]
SubscribeRequest == [method |-> "POST", route |-> "/api/push/subscribe"]
CountRequest == [method |-> "GET", route |-> "/api/notifications/count"]
ListRequest == [method |-> "GET", route |-> "/api/notifications"]
MarkReadRequest == [method |-> "PUT", route |-> "/api/notifications/<id>/read"]
MarkAllRequest == [method |-> "PUT", route |-> "/api/notifications/mark-all-read"]

\* The notificationList element as the page's template leaves it.
InitialList == [kind |-> "initial", text |-> "", items |-> <<>>]

\* No getTimeAgo() call yet.
NoTimeAgo == [now |-> 0, date |-> 0, label |-> ""]

\* No getNotificationIcon() call yet.
NoIcon == [ran |-> FALSE, type |-> JsUndefined, event |-> JsUndefined, icon |-> ""]

\* The csrf-token meta element of the page: absent, present without a
\* content attribute, or carrying the token.
MetaTags == {"absent", "noContent", "token"}

\* document.querySelector('meta[name=csrf-token]')?.getAttribute('content'):
\* undefined without the element, null without the attribute.
CsrfTokenOf(meta) ==
    CASE meta = "absent" -> JsUndefined
      [] meta = "noContent" -> JsNull
      [] OTHER -> JsStr("csrf-secret")

\* The header lines fetch() sends for a headers option { name: value, ... }:
\* the option is read as a record of strings, every own property with its
\* value converted by ToString.
HeaderLines(headers) == [name \in DOMAIN headers |-> JsToString(headers[name])]

\* headers of sendSubscriptionToServer() and of the two PUT requests
SubscribeHeaders(token) ==
    ("Content-Type" :> JsStr("application/json")) @@ ("X-CSRFToken" :> token)
PutHeaders(token) == ("X-CSRFToken" :> token)

Sent(route, headers) == [route |-> route, headers |-> HeaderLines(headers)]

\* Mutant of InitTail: the timer is started before the first count request.
InitTailTimerFirst == <<"setInterval", "loadNotificationCount", "setupEventListeners">>

\* init(): the call it awaits, and the calls it makes after it.
InitHead == <<"initializePushNotifications">>
InitTail == <<"loadNotificationCount", "setupEventListeners", "setInterval">>

NoMark == [n |-> 0, id |-> 0, outcome |-> "none"]
NoMarkAll == [n |-> 0, outcome |-> "none"]

\* What the badge shows: its text while it is visible, nothing (0) otherwise.
Displayed(text, display) == IF display = "inline-block" THEN text ELSE 0

\* The poll sequence of the specification's example: a success response
\* with unread_count 5, a failing request, a success response with
\* unread_count 3.
PollExample ==
    << [ok |-> TRUE, count |-> 5], [ok |-> FALSE, count |-> 0],
       [ok |-> TRUE, count |-> 3] >>

PatternOff == Len(PollExample) + 1

\* The pattern position after one more response.
Follow(pos, outcome) ==
    IF /\ pos < Len(PollExample)
       /\ PollExample[pos + 1].ok = (outcome.kind = "success")
       /\ (outcome.kind = "success" => PollExample[pos + 1].count = outcome.count)
    THEN pos + 1
    ELSE PatternOff

NewCall(caller) ==
    [caller |-> caller, found |-> FALSE, keyFetched |-> FALSE,
     created |-> FALSE, posts |-> 0, done |-> FALSE]

\* The log with its last record (the running call) changed.
Running(log, field, value) == [log EXCEPT ![Len(log)][field] = value]

SWParked ==
    /\ swPushes = 0
    /\ swShown = 0
    /\ swThrown = 0
    /\ swOpen = <<>>
    /\ lastPush = NoPush
    /\ swClicks = 0
    /\ lastClick = NoClick
    /\ swState = "activated"
    /\ swCaches = InstallHandler(NoCaches, Range(urlsToCache), "ok").store
    /\ installLog = Installed
    /\ lastFetch = NoFetch
    /\ lastSync = NoSync

\* new NotificationSystem(): the constructor sets the fields and calls
\* init(), which runs to its first await.  With the push APIs present that
\* is the register() call of initializePushNotifications(); without them
\* initializePushNotifications() has logged and returned, and init() waits
\* for the microtask that resumes it.  A browser holds a push subscription
\* only while the permission is granted.
\* The browser tabs of the model.
Tabs == {1, 2}

\* No count response applied yet.
NoVersion == 0 - 1

\* A tab before its controller is constructed.
NoTab ==
    [badge |-> TRUE, notificationCount |-> 0, badgeText |-> 0,
     badgeDisplay |-> "none", animate |-> FALSE, replies |-> <<>>,
     seen |-> NoVersion, marking |-> "none"]

SrvParked ==
    /\ tabs = [t \in Tabs |-> NoTab]
    /\ serverUnread = 0
    /\ serverVersion = 0
    /\ tabCalls = [polls |-> 0, marks |-> 0]
    /\ consoleLog = {}

Init ==
    /\ SWParked
    /\ SrvParked
    /\ page \in [badge : BOOLEAN, dropdown : BOOLEAN, list : BOOLEAN,
                 pushApis : BOOLEAN]
    /\ permission \in {"default", "granted", "denied"}
    /\ browserSub \in BOOLEAN
    /\ browserSub => (page.pushApis /\ permission = "granted")
    /\ serverSubs = 0
    /\ notificationCount = 0
    /\ pushSupported = FALSE
    /\ serviceWorkerRegistration = FALSE
    /\ initPc = (IF page.pushApis THEN "registering" ELSE "booted")
    /\ subPc = "idle"
    /\ subCaller = "none"
    /\ bootFail = (IF page.pushApis THEN {} ELSE {"unsupported"})
    /\ subLog = <<>>
    /\ extCalls = 0
    /\ countInFlight = 0
    /\ countRequests = 0
    /\ ticks = 0
    /\ timerStarted = FALSE
    /\ listenerAttached = FALSE
    /\ badgeText = 0
    /\ badgeDisplay = "none"
    /\ lastSuccess = 0
    /\ lastPoll = [n |-> 0, ok |-> FALSE]
    /\ pattern = 0
    /\ listInFlight = 0
    /\ opens = 0
    /\ listView = InitialList
    /\ listRenders = 0
    /\ lastList = <<>>
    /\ marks = 0
    /\ markInFlight = [id \in MarkableIds |-> 0]
    /\ lastMark = NoMark
    /\ markAlls = 0
    /\ markAllInFlight = 0
    /\ lastMarkAll = NoMarkAll
    /\ serverRead = {}
    /\ listSnaps = <<>>
    /\ listOk = "none"
    /\ requested = {}
    /\ timeAgo = NoTimeAgo
    /\ lastIcon = NoIcon
    /\ csrf_token = CsrfTokenOf("token")
    /\ csrfSent = {}
    /\ uncaught = {}
    /\ initLog = InitHead

\* Everything a push bootstrap step leaves alone.
RestUnchanged ==
    UNCHANGED <<swVars, srvVars, timeAgo, lastIcon, csrf_token, page, countInFlight,
                countRequests, ticks, timerStarted, listenerAttached, pollVars,
                listVars, markVars, uncaught, initLog>>

\* Mutant of AfterPermission: subscribeToPush() is called whatever the
\* permission.
AfterPermissionAlways(perm) ==
    /\ initPc' = "subscribing"
    /\ subPc' = "getSub"
    /\ subCaller' = "init"
    /\ subLog' = Append(subLog, NewCall("init"))
    /\ UNCHANGED bootFail

\* initializePushNotifications() after the permission is known: subscribe
\* when it is granted, return otherwise.
AfterPermission(perm) ==
    IF perm = "granted"
    THEN /\ initPc' = "subscribing"
         /\ subPc' = "getSub"
         /\ subCaller' = "init"
         /\ subLog' = Append(subLog, NewCall("init"))
         /\ UNCHANGED bootFail
    ELSE /\ initPc' = "booted"
         /\ bootFail' = bootFail \cup {"denied"}
         /\ UNCHANGED <<subPc, subCaller, subLog>>

\* await navigator.serviceWorker.register('/static/sw.js') resolves.
RegisterResolves ==
    /\ initPc = "registering"
    /\ serviceWorkerRegistration' = TRUE
    /\ pushSupported' = TRUE
    /\ IF permission = "default"
       THEN /\ initPc' = "prompting"
            /\ UNCHANGED <<subPc, subCaller, subLog, bootFail>>
       ELSE AfterPermission(permission)
    /\ UNCHANGED <<permission, browserSub, serverSubs, extCalls>>
    /\ UNCHANGED <<requested, csrfSent>>
    /\ RestUnchanged

\* Mutant of RegisterRejects: the rejection is not caught, and init() ends
\* with it.
RegisterRejectsUncaught ==
    /\ initPc = "registering"
    /\ initPc' = "threw"
    /\ bootFail' = bootFail \cup {"register"}
    /\ UNCHANGED <<permission, browserSub, serverSubs, pushSupported,
                   serviceWorkerRegistration, subPc, subCaller, subLog, extCalls>>
    /\ UNCHANGED <<requested, csrfSent>>
    /\ RestUnchanged

\* await navigator.serviceWorker.register(...) rejects: the catch block logs.
RegisterRejects ==
    /\ initPc = "registering"
    /\ initPc' = "booted"
    /\ bootFail' = bootFail \cup {"register"}
    /\ UNCHANGED <<permission, browserSub, serverSubs, pushSupported,
                   serviceWorkerRegistration, subPc, subCaller, subLog, extCalls>>
    /\ UNCHANGED <<requested, csrfSent>>
    /\ RestUnchanged

\* await Notification.requestPermission() resolves with the user's answer
\* ("default" when the prompt is dismissed).
PermissionAnswered ==
    /\ initPc = "prompting"
    /\ \E answer \in {"granted", "denied", "default"} :
          /\ permission' = answer
          /\ AfterPermission(answer)
    /\ UNCHANGED <<browserSub, serverSubs, pushSupported,
                   serviceWorkerRegistration, extCalls>>
    /\ UNCHANGED <<requested, csrfSent>>
    /\ RestUnchanged

\* subscribeToPush() returns (normally, or out of its catch block) with the
\* call log as given; an init() that awaits it resumes.
SubReturn(log, fails) ==
    /\ subPc' = "idle"
    /\ subCaller' = "none"
    /\ subLog' = Running(log, "done", TRUE)
    /\ IF subCaller = "init"
       THEN /\ initPc' = "booted"
            /\ bootFail' = bootFail \cup fails
       ELSE UNCHANGED <<initPc, bootFail>>

\* Mutant of ExistingSubscription: the existing subscription is not seen.
ExistingSubscriptionIgnored(sub) == FALSE

\* if (existingSubscription): getSubscription() resolves with the push
\* manager's subscription, or null.
ExistingSubscription(sub) == sub

\* await pushManager.getSubscription() settles.
GetSubscriptionSettles ==
    /\ subPc = "getSub"
    /\ \/ /\ ExistingSubscription(browserSub)
          /\ SubReturn(Running(subLog, "found", TRUE), {})
          /\ UNCHANGED requested
       \/ /\ ~ExistingSubscription(browserSub)
          \* getVAPIDPublicKey() issues its fetch
          /\ subPc' = "getKey"
          /\ subLog' = Running(subLog, "keyFetched", TRUE)
          /\ requested' = requested \cup {KeyRequest}
          /\ UNCHANGED <<subCaller, initPc, bootFail>>
       \/ /\ SubReturn(subLog, {"getSub"})
          /\ UNCHANGED requested
    /\ UNCHANGED <<permission, browserSub, serverSubs, pushSupported,
                   serviceWorkerRegistration, extCalls, csrfSent>>
    /\ RestUnchanged

FallbackKey == "BEl62iUY..."

\* getVAPIDPublicKey(): data.publicKey of the response, or the hardcoded key
\* when the fetch rejects, the body is no JSON or reading data.publicKey
\* throws (the body is JSON null).
KeyOutcomes == {"key", "rejected", "unparseable", "nullBody", "noKey", "badKey"}

GetVAPIDPublicKey(outcome) ==
    CASE outcome = "key" -> "serverKey"
      [] outcome = "badKey" -> "not base64!"
      [] outcome = "noKey" -> "undefined"
      [] OTHER -> FallbackKey

\* What init() meets at the key step: the endpoint supplied no key ("key"),
\* or a key that urlBase64ToUint8Array cannot decode ("decode").
KeyFailure(outcome) ==
    CASE outcome = "key" -> {}
      [] outcome = "badKey" -> {"decode"}
      [] OTHER -> {"key"}

\* Mutant of UrlBase64Decodes: every key is taken.
UrlBase64DecodesAnything(key) == TRUE

\* urlBase64ToUint8Array(key) returns: undefined has no length (TypeError)
\* and atob rejects text that is not base64.
UrlBase64Decodes(key) == key \notin {"undefined", "not base64!"}

\* What the outcomes of the key fetch come to: whether the key returned
\* decodes, and what init() has met.
KeyEnds ==
    { [decodes |-> UrlBase64Decodes(GetVAPIDPublicKey(outcome)),
       fails |-> KeyFailure(outcome)] : outcome \in KeyOutcomes }

\* The /api/push/vapid-public-key fetch settles; subscribeToPush() goes on to
\* pushManager.subscribe(), or leaves through its catch block.
KeyResponse ==
    /\ subPc = "getKey"
    /\ \E end \in KeyEnds :
          IF end.decodes
          THEN /\ subPc' = "subscribing"
               /\ bootFail' = (IF subCaller = "init" THEN bootFail \cup end.fails
                               ELSE bootFail)
               /\ UNCHANGED <<subCaller, initPc, subLog>>
          ELSE SubReturn(subLog, end.fails)
    /\ UNCHANGED <<permission, browserSub, serverSubs, pushSupported,
                   serviceWorkerRegistration, extCalls>>
    /\ UNCHANGED <<requested, csrfSent>>
    /\ RestUnchanged

\* await pushManager.subscribe(...) settles: it resolves only while the
\* permission is granted; then sendSubscriptionToServer() issues its POST.
BrowserSubscribeSettles ==
    /\ subPc = "subscribing"
    /\ \/ /\ permission = "granted"
          /\ browserSub' = TRUE
          /\ subPc' = "posting"
          /\ subLog' = Running(Running(subLog, "created", TRUE), "posts",
                               subLog[Len(subLog)].posts + 1)
          /\ requested' = requested \cup {SubscribeRequest}
          /\ csrfSent' = csrfSent \cup
                 {Sent(SubscribeRequest.route, SubscribeHeaders(csrf_token))}
          /\ UNCHANGED <<subCaller, initPc, bootFail>>
       \/ /\ SubReturn(subLog, {"subscribe"})
          /\ UNCHANGED <<browserSub, requested, csrfSent>>
    /\ UNCHANGED <<permission, serverSubs, pushSupported,
                   serviceWorkerRegistration, extCalls>>
    /\ RestUnchanged

\* The POST /api/push/subscribe settles: a non-2xx status throws inside
\* sendSubscriptionToServer(), whose catch block logs, as for a rejection.
PostResponse ==
    /\ subPc = "posting"
    /\ \E outcome \in {"ok", "non2xx", "rejected"} :
          /\ serverSubs' = serverSubs + (IF outcome = "ok" THEN 1 ELSE 0)
          /\ SubReturn(subLog, IF outcome = "ok" THEN {} ELSE {"post"})
    /\ UNCHANGED <<permission, browserSub, pushSupported,
                   serviceWorkerRegistration, extCalls>>
    /\ UNCHANGED <<requested, csrfSent>>
    /\ RestUnchanged

\* subscribeToPush() called from outside init(), in sequence with init()'s
\* own call.  Without a registration the first statement throws a TypeError
\* and the catch block logs.
ExtSubscribe ==
    /\ extCalls < MaxExtSubscribe
    /\ subPc = "idle"
    /\ initPc \in {"registering", "booted", "done"}
    /\ extCalls' = extCalls + 1
    /\ IF serviceWorkerRegistration
       THEN /\ subPc' = "getSub"
            /\ subCaller' = "ext"
            /\ subLog' = Append(subLog, NewCall("ext"))
       ELSE /\ subLog' = Append(subLog, [NewCall("ext") EXCEPT !.done = TRUE])
            /\ UNCHANGED <<subPc, subCaller>>
    /\ UNCHANGED <<permission, browserSub, serverSubs, pushSupported,
                   serviceWorkerRegistration, initPc, bootFail>>
    /\ UNCHANGED <<requested, csrfSent>>
    /\ RestUnchanged

\* loadNotificationCount() up to its await: the request is issued.
IssueCountRequest ==
    /\ countInFlight' = countInFlight + 1
    /\ countRequests' = countRequests + 1

\* init() resumes after await this.initializePushNotifications():
\* loadNotificationCount(), setupEventListeners(), setInterval(...).
InitContinue ==
    /\ initPc = "booted"
    /\ initPc' = "done"
    /\ IssueCountRequest
    /\ requested' = requested \cup {CountRequest}
    /\ listenerAttached' = page.dropdown
    /\ timerStarted' = TRUE
    /\ initLog' = initLog \o InitTail
    /\ UNCHANGED <<swVars, srvVars, timeAgo, lastIcon, csrf_token, page, permission,
                   browserSub, serverSubs, pushSupported,
                   serviceWorkerRegistration, subPc, subCaller, bootFail, subLog,
                   extCalls, ticks, pollVars, listVars, markVars, csrfSent,
                   uncaught>>

\* Mutant of TimerTick: the timer is cleared when a poll fails.
TimerTickUntilFailure ==
    /\ timerStarted
    /\ lastPoll.n = 0 \/ lastPoll.ok
    /\ ticks < MaxTicks
    /\ ticks' = ticks + 1
    /\ IssueCountRequest
    /\ requested' = requested \cup {CountRequest}
    /\ UNCHANGED <<swVars, srvVars, timeAgo, lastIcon, csrf_token, page, bootVars,
                   timerStarted, listenerAttached, pollVars, listVars, markVars,
                   csrfSent, uncaught, initLog>>

\* The interval timer fires: () => this.loadNotificationCount().
TimerTick ==
    /\ timerStarted
    /\ ticks < MaxTicks
    /\ ticks' = ticks + 1
    /\ IssueCountRequest
    /\ requested' = requested \cup {CountRequest}
    /\ UNCHANGED <<swVars, srvVars, timeAgo, lastIcon, csrf_token, page, bootVars,
                   timerStarted, listenerAttached, pollVars, listVars, markVars,
                   csrfSent, uncaught, initLog>>

\* What a /api/notifications/count request can end in: a rejected fetch, a
\* body that is no JSON, the JSON body null, or an object with a success
\* flag and an unread_count.
CountOutcomes ==
    {[kind |-> k, count |-> 0] : k \in {"rejected", "unparseable", "nullBody"}}
    \cup {[kind |-> k, count |-> c] : k \in {"notSuccess", "success"}, c \in CountValues}

\* Mutant of CountApplies: the success flag is not looked at.
CountAppliesAnyBody(outcome) == outcome.kind \in {"notSuccess", "success"}

\* loadNotificationCount(): the response reaches updateNotificationBadge only
\* through "if (result.success)"; a rejection, a parse error and the
\* TypeError of reading null.success end in the catch block.
CountApplies(outcome) == outcome.kind = "success"

\* Mutant of BadgeAfter: the count is stored and the badge element is left
\* as it is.
BadgeAfterStoresOnly(b, count) ==
    IF ~b.badge THEN b
    ELSE [b EXCEPT !.notificationCount = count]

\* Mutant of BadgeAfter: the animation starts on every update with a
\* positive count.
BadgeAfterAnimatesAlways(b, count) ==
    IF ~b.badge THEN b
    ELSE IF count > 0
    THEN [b EXCEPT !.badgeText = count, !.badgeDisplay = "inline-block",
                   !.animate = TRUE, !.notificationCount = count]
    ELSE [b EXCEPT !.badgeDisplay = "none", !.notificationCount = count]

\* updateNotificationBadge(count) on a controller and its badge element b:
\* nothing without the element; the text and the display, the class
\* notification-badge-animate when the count is above the stored one; the
\* stored count.
BadgeAfter(b, count) ==
    IF ~b.badge THEN b
    ELSE IF count > 0
    THEN [b EXCEPT !.badgeText = count, !.badgeDisplay = "inline-block",
                   !.animate = @ \/ count > b.notificationCount,
                   !.notificationCount = count]
    ELSE [b EXCEPT !.badgeDisplay = "none", !.notificationCount = count]

\* updateNotificationBadge(count)
UpdateNotificationBadge(count) ==
    LET b == BadgeAfter([badge |-> page.badge,
                         notificationCount |-> notificationCount,
                         badgeText |-> badgeText, badgeDisplay |-> badgeDisplay,
                         animate |-> FALSE], count)
    IN  /\ notificationCount' = b.notificationCount
        /\ badgeText' = b.badgeText
        /\ badgeDisplay' = b.badgeDisplay

\* What the outcomes of a count request come to: a success response or
\* not, whether loadNotificationCount() hands the count to
\* updateNotificationBadge, and the count.
CountEnds ==
    { [kind |-> IF outcome.kind = "success" THEN "success" ELSE "failure",
       applies |-> CountApplies(outcome),
       count |-> IF outcome.kind = "success" \/ CountApplies(outcome)
                 THEN outcome.count ELSE 0] : outcome \in CountOutcomes }

\* A /api/notifications/count request settles and loadNotificationCount()
\* runs to its end.
CountResponse ==
    /\ countInFlight > 0
    /\ countInFlight' = countInFlight - 1
    /\ \E end \in CountEnds :
          /\ IF end.applies
             THEN UpdateNotificationBadge(end.count)
             ELSE UNCHANGED <<notificationCount, badgeText, badgeDisplay>>
          /\ lastSuccess' = (IF end.kind = "success" THEN end.count
                             ELSE lastSuccess)
          /\ lastPoll' = [n |-> lastPoll.n + 1, ok |-> end.kind = "success"]
          /\ pattern' = Follow(pattern, end)
    /\ UNCHANGED <<swVars, srvVars, timeAgo, lastIcon, csrf_token, page, bootVars,
                   countRequests, ticks, timerStarted, listenerAttached, listVars,
                   markVars, requested, csrfSent, uncaught, initLog>>

\* A click on the dropdown: the listener calls loadNotifications(), which
\* issues its request.
DropdownOpen(max) ==
    /\ listenerAttached
    /\ opens < max
    /\ opens' = opens + 1
    /\ listInFlight' = listInFlight + 1
    /\ listSnaps' = Append(listSnaps, serverRead)
    /\ requested' = requested \cup {ListRequest}
    /\ UNCHANGED <<swVars, srvVars, timeAgo, lastIcon, csrf_token, page, bootVars,
                   countInFlight, countRequests, ticks, timerStarted,
                   listenerAttached, pollVars, listView, listRenders, lastList,
                   listOk, markVars, csrfSent, uncaught, initLog>>

DropdownClick == DropdownOpen(MaxOpens)

\* What a /api/notifications request can end in: a rejected fetch, a body
\* that is no JSON, the JSON body null, an object without a true success
\* flag, one with the flag and no notifications array, or a full answer.
ListOutcomes ==
    {[kind |-> k, notifications |-> <<>>] :
        k \in {"rejected", "unparseable", "nullBody", "notSuccess", "noArray"}}
    \cup {[kind |-> "success", notifications |-> l] : l \in ListResponses}

\* The element displayNotifications() writes for one record: the class
\* unread or read, the data-notification-id, the New badge of an unread one.
RenderItem(notification) ==
    [id |-> notification.id,
     cls |-> IF ~notification.is_read THEN "unread" ELSE "read",
     badge |-> ~notification.is_read]

\* Mutant of RenderList: the records are written last first.
RenderListReversed(notifications) ==
    [i \in 1..Len(notifications) |->
        RenderItem(notifications[Len(notifications) + 1 - i])]

\* notifications.forEach(...): one element per record, in the order of the
\* array.
RenderList(notifications) ==
    [i \in 1..Len(notifications) |-> RenderItem(notifications[i])]

\* Mutant of EmptyState: an empty array clears the container.
EmptyStateBlank == [kind |-> "blank", text |-> "", items |-> <<>>]

\* The empty-state element with the text "No notifications".
EmptyState == [kind |-> "empty", text |-> "No notifications", items |-> <<>>]

\* displayNotifications(notifications)
DisplayNotifications(notifications) ==
    IF ~page.list
    THEN UNCHANGED <<listView, listRenders, lastList>>
    ELSE /\ listView' = (IF Len(notifications) = 0 THEN EmptyState
                         ELSE [kind |-> "items", text |-> "",
                               items |-> RenderList(notifications)])
         /\ listRenders' = listRenders + 1
         /\ lastList' = notifications

\* Mutant of LoadNotifications: the success flag is not looked at.
LoadNotificationsAnyBody(outcome, hasList) ==
    CASE outcome.kind \in {"success", "notSuccess"} -> "display"
      [] outcome.kind = "noArray" -> IF hasList THEN "caught" ELSE "display"
      [] OTHER -> "caught"

\* Mutant of LoadNotifications: the TypeError of displayNotifications()
\* is not caught.
LoadNotificationsNoCatch(outcome, hasList) ==
    CASE outcome.kind = "success" -> "display"
      [] outcome.kind = "notSuccess" -> "skip"
      [] outcome.kind = "noArray" -> IF hasList THEN "uncaught" ELSE "display"
      [] OTHER -> "caught"

\* How loadNotifications() ends: displayNotifications() is called through
\* "if (result.success)"; a rejection, a parse error, the TypeError of
\* reading null.success and the TypeError of undefined.length (thrown by
\* displayNotifications() after it has found the list element) end in the
\* catch block.
LoadNotifications(outcome, hasList) ==
    CASE outcome.kind = "success" -> "display"
      [] outcome.kind = "notSuccess" -> "skip"
      [] outcome.kind = "noArray" -> IF hasList THEN "caught" ELSE "display"
      [] OTHER -> "caught"

\* What the outcomes of a list request come to, on a page with and
\* without the list element: how loadNotifications() ends, and the records
\* it hands to displayNotifications().
ListEnds ==
    { [hasList |-> hasList,
       ok |-> outcome.kind \in {"success", "noArray"},
       how |-> LoadNotifications(outcome, hasList),
       notifications |-> IF LoadNotifications(outcome, hasList) = "display"
                         THEN outcome.notifications ELSE <<>>] :
        outcome \in ListOutcomes, hasList \in BOOLEAN }

\* The server never un-reads a record: a list it sends gives a record as
\* read that it had marked read when the request was issued.
Servable(notifications, read) ==
    \A k \in DOMAIN notifications :
        notifications[k].id \in read => notifications[k].is_read

\* A /api/notifications request settles and loadNotifications() runs to its
\* end.  Whether the response said success is kept when observed.
ListResponseOf(observed) ==
    /\ listInFlight > 0
    /\ listInFlight' = listInFlight - 1
    /\ \E i \in DOMAIN listSnaps, end \in ListEnds :
          /\ end.hasList = page.list
          /\ Servable(end.notifications, listSnaps[i])
          /\ listSnaps' = Without(listSnaps, i)
          /\ listOk' = (IF ~observed THEN listOk
                        ELSE IF end.ok THEN "yes" ELSE "no")
          /\ IF end.how = "display"
             THEN DisplayNotifications(end.notifications)
             ELSE UNCHANGED <<listView, listRenders, lastList>>
          /\ uncaught' = (IF end.how = "uncaught"
                          THEN uncaught \cup {"loadNotifications"}
                          ELSE uncaught)
    /\ UNCHANGED <<swVars, srvVars, timeAgo, lastIcon, csrf_token, page, bootVars,
                   countInFlight, countRequests, ticks, timerStarted,
                   listenerAttached, pollVars, opens, markVars, requested,
                   csrfSent, initLog>>

ListResponse == ListResponseOf(FALSE)

Next ==
    \/ RegisterResolves
    \/ RegisterRejects
    \/ PermissionAnswered
    \/ GetSubscriptionSettles
    \/ KeyResponse
    \/ BrowserSubscribeSettles
    \/ PostResponse
    \/ ExtSubscribe
    \/ InitContinue
    \/ TimerTick
    \/ CountResponse
    \/ DropdownClick
    \/ ListResponse

Spec == Init /\ [][Next]_vars

\* What the browser guarantees: a microtask runs, and a service worker
\* registration, a push manager call and a fetch settle one way or the
\* other.  Nothing guarantees that the user ever answers the permission
\* prompt, opens the dropdown, or that anyone calls subscribeToPush() again.
BootProgress ==
    \/ RegisterResolves
    \/ RegisterRejects
    \/ GetSubscriptionSettles
    \/ KeyResponse
    \/ BrowserSubscribeSettles
    \/ PostResponse
    \/ InitContinue

FairSpec ==
    /\ Init
    /\ [][Next]_vars
    /\ WF_vars(BootProgress)
    /\ WF_vars(TimerTick)
    /\ WF_vars(CountResponse \/ ListResponse)

CtlParked ==
    /\ page = [badge |-> TRUE, dropdown |-> TRUE, list |-> TRUE, pushApis |-> TRUE]
    /\ permission = "default"
    /\ browserSub = FALSE
    /\ serverSubs = 0
    /\ notificationCount = 0
    /\ pushSupported = FALSE
    /\ serviceWorkerRegistration = FALSE
    /\ initPc = "registering"
    /\ subPc = "idle"
    /\ subCaller = "none"
    /\ bootFail = {}
    /\ subLog = <<>>
    /\ extCalls = 0
    /\ countInFlight = 0
    /\ countRequests = 0
    /\ ticks = 0
    /\ timerStarted = FALSE
    /\ listenerAttached = FALSE
    /\ badgeText = 0
    /\ badgeDisplay = "none"
    /\ lastSuccess = 0
    /\ lastPoll = [n |-> 0, ok |-> FALSE]
    /\ pattern = 0
    /\ listInFlight = 0
    /\ opens = 0
    /\ listView = InitialList
    /\ listRenders = 0
    /\ lastList = <<>>
    /\ marks = 0
    /\ markInFlight = [id \in MarkableIds |-> 0]
    /\ lastMark = NoMark
    /\ markAlls = 0
    /\ markAllInFlight = 0
    /\ lastMarkAll = NoMarkAll
    /\ serverRead = {}
    /\ listSnaps = <<>>
    /\ listOk = "none"
    /\ requested = {}
    /\ timeAgo = NoTimeAgo
    /\ lastIcon = NoIcon
    /\ csrf_token = CsrfTokenOf("token")
    /\ csrfSent = {}
    /\ uncaught = {}
    /\ initLog = InitHead

(***************************************************************************)
(* The dropdown list in use: markNotificationRead() and                    *)
(* markAllNotificationsRead() next to the list and count requests, on a    *)
(* page whose NotificationSystem has finished init().  The polls of the    *)
(* interval timer are part of Spec.                                        *)
(***************************************************************************)

\* What a PUT request of the controller can end in.
PutOutcomes == {"ok", "non2xx", "rejected"}

\* Mutant of MarkReadApplies: the status of the response is not looked at.
MarkReadAppliesAnyStatus(outcome) == outcome \in {"ok", "non2xx"}

\* markNotificationRead(): "if (response.ok)"; a rejected fetch ends in the
\* catch block.
MarkReadApplies(outcome) == outcome = "ok"

\* document.querySelector('[data-notification-id="id"]'): the position of
\* the first such element of the list, 0 when there is none.
FirstItem(items, id) ==
    LET at == {i \in DOMAIN items : items[i].id = id}
    IN  IF at = {} THEN 0 ELSE CHOOSE i \in at : \A j \in at : i <= j

\* Mutant of MarkItemRead: the class is changed and the badge stays.
MarkItemReadKeepsBadge(view, id) ==
    LET i == FirstItem(view.items, id)
    IN  IF i = 0 THEN view
        ELSE [view EXCEPT !.items[i].cls = "read"]

\* classList.remove('unread'), classList.add('read') and the removal of
\* the element's badge, when the element exists.
MarkItemRead(view, id) ==
    LET i == FirstItem(view.items, id)
    IN  IF i = 0 THEN view
        ELSE [view EXCEPT !.items[i] = [id |-> id, cls |-> "read", badge |-> FALSE]]

\* markNotificationRead(notificationId) up to its await: the PUT request is
\* issued.
MarkNotificationRead ==
    /\ marks < MaxMarks
    /\ marks' = marks + 1
    /\ \E id \in MarkableIds :
          markInFlight' = [markInFlight EXCEPT ![id] = @ + 1]
    /\ requested' = requested \cup {MarkReadRequest}
    /\ csrfSent' = csrfSent \cup {Sent(MarkReadRequest.route, PutHeaders(csrf_token))}
    /\ UNCHANGED <<swVars, srvVars, timeAgo, lastIcon, csrf_token, page, bootVars,
                   countInFlight, countRequests, ticks, timerStarted,
                   listenerAttached, pollVars, listVars, lastMark, markAlls,
                   markAllInFlight, lastMarkAll, serverRead, uncaught, initLog>>

\* The PUT /api/notifications/<id>/read settles and markNotificationRead()
\* runs to its end: on a 2xx status the element is changed and
\* loadNotificationCount() called.  The server's read set is followed for
\* the records in followed.
MarkReadResponseOf(followed) ==
    /\ \E id \in MarkableIds, outcome \in PutOutcomes :
          /\ markInFlight[id] > 0
          /\ markInFlight' = [markInFlight EXCEPT ![id] = @ - 1]
          /\ lastMark' = [n |-> lastMark.n + 1, id |-> id, outcome |-> outcome]
          /\ serverRead' = (IF outcome = "ok"
                            THEN serverRead \cup ({id} \cap followed)
                            ELSE serverRead)
          /\ IF MarkReadApplies(outcome)
             THEN /\ listView' = MarkItemRead(listView, id)
                  /\ IssueCountRequest
                  /\ requested' = requested \cup {CountRequest}
             ELSE UNCHANGED <<listView, countInFlight, countRequests, requested>>
    /\ UNCHANGED <<swVars, srvVars, timeAgo, lastIcon, csrf_token, page, bootVars, ticks,
                   timerStarted, listenerAttached, pollVars, listInFlight, opens,
                   listRenders, lastList, listSnaps, listOk, marks, markAlls,
                   markAllInFlight, lastMarkAll, csrfSent, uncaught, initLog>>

MarkReadResponse == MarkReadResponseOf({})

\* Mutant of MarkAllApplies: the status of the response is not looked at.
MarkAllAppliesAnyStatus(outcome) == outcome \in {"ok", "non2xx"}

\* markAllNotificationsRead(): "if (response.ok)".
MarkAllApplies(outcome) == outcome = "ok"

\* markAllNotificationsRead() up to its await: the PUT request is issued.
MarkAllNotificationsRead ==
    /\ markAlls < MaxMarkAll
    /\ markAlls' = markAlls + 1
    /\ markAllInFlight' = markAllInFlight + 1
    /\ requested' = requested \cup {MarkAllRequest}
    /\ csrfSent' = csrfSent \cup {Sent(MarkAllRequest.route, PutHeaders(csrf_token))}
    /\ UNCHANGED <<swVars, srvVars, timeAgo, lastIcon, csrf_token, page, bootVars,
                   countInFlight, countRequests, ticks, timerStarted,
                   listenerAttached, pollVars, listVars, marks, markInFlight,
                   lastMark, lastMarkAll, serverRead, uncaught, initLog>>

\* The PUT /api/notifications/mark-all-read settles and
\* markAllNotificationsRead() runs to its end: on a 2xx status
\* loadNotifications() and loadNotificationCount() issue their requests.
MarkAllResponse ==
    /\ markAllInFlight > 0
    /\ markAllInFlight' = markAllInFlight - 1
    /\ \E outcome \in PutOutcomes :
          /\ lastMarkAll' = [n |-> lastMarkAll.n + 1, outcome |-> outcome]
          /\ IF MarkAllApplies(outcome)
             THEN /\ listInFlight' = listInFlight + 1
                  /\ listSnaps' = Append(listSnaps, serverRead)
                  /\ IssueCountRequest
                  /\ requested' = requested \cup {ListRequest, CountRequest}
             ELSE UNCHANGED <<listInFlight, listSnaps, countInFlight,
                              countRequests, requested>>
    /\ UNCHANGED <<swVars, srvVars, timeAgo, lastIcon, csrf_token, page, bootVars, ticks,
                   timerStarted, listenerAttached, pollVars, opens, listView,
                   listRenders, lastList, listOk, marks, markInFlight, lastMark,
                   markAlls, serverRead, csrfSent, uncaught, initLog>>

\* The state init() leaves on a page without the push APIs: the first count
\* request is out, the timer runs, the dropdown has its listener.  The page
\* has one of the given csrf-token meta elements.
AfterInit(metas) ==
    /\ SWParked
    /\ SrvParked
    /\ page \in [badge : {TRUE}, dropdown : {TRUE}, list : BOOLEAN,
                 pushApis : {FALSE}]
    /\ permission = "default"
    /\ browserSub = FALSE
    /\ serverSubs = 0
    /\ notificationCount = 0
    /\ pushSupported = FALSE
    /\ serviceWorkerRegistration = FALSE
    /\ initPc = "done"
    /\ subPc = "idle"
    /\ subCaller = "none"
    /\ bootFail = {"unsupported"}
    /\ subLog = <<>>
    /\ extCalls = 0
    /\ countInFlight = 1
    /\ countRequests = 1
    /\ ticks = 0
    /\ timerStarted = TRUE
    /\ listenerAttached = TRUE
    /\ badgeText = 0
    /\ badgeDisplay = "none"
    /\ lastSuccess = 0
    /\ lastPoll = [n |-> 0, ok |-> FALSE]
    /\ pattern = 0
    /\ listInFlight = 0
    /\ opens = 0
    /\ listView = InitialList
    /\ listRenders = 0
    /\ lastList = <<>>
    /\ marks = 0
    /\ markInFlight = [id \in MarkableIds |-> 0]
    /\ lastMark = NoMark
    /\ markAlls = 0
    /\ markAllInFlight = 0
    /\ lastMarkAll = NoMarkAll
    /\ serverRead = {}
    /\ listSnaps = <<>>
    /\ listOk = "none"
    /\ requested = {CountRequest}
    /\ timeAgo = NoTimeAgo
    /\ lastIcon = NoIcon
    /\ \E meta \in metas : csrf_token = CsrfTokenOf(meta)
    /\ csrfSent = {}
    /\ uncaught = {}
    /\ initLog = InitHead \o InitTail

ListInit == AfterInit({"token"})

ListNext ==
    \/ DropdownClick
    \/ ListResponse
    \/ CountResponse
    \/ MarkNotificationRead
    \/ MarkReadResponse
    \/ MarkAllNotificationsRead
    \/ MarkAllResponse

ListSpec == ListInit /\ [][ListNext]_vars

\* The same operations on a page with any csrf-token meta element, or none.
TokenInit == AfterInit(MetaTags)

TokenSpec == TokenInit /\ [][ListNext]_vars


(***************************************************************************)
(* getTimeAgo(date), the label of a record's timestamp.  Times are in      *)
(* milliseconds, as Date values are.                                       *)
(***************************************************************************)

\* The decimal notation of a natural number (a template literal's
\* conversion of the number).
RECURSIVE Decimal(_)
Decimal(n) ==
    IF n < 10 THEN Digits[n + 1] ELSE Decimal(n \div 10) \o Digits[(n % 10) + 1]

\* Math.floor(x / y) for y > 0.
FloorDiv(x, y) == x \div y

\* Mutant of GetTimeAgo: the age is rounded to the nearest unit.
GetTimeAgoRounded(now, date) ==
    LET diff == FloorDiv(now - date, 1000)
        round(x, y) == FloorDiv(2 * x + y, 2 * y)
    IN  IF diff < 60 THEN "Just now"
        ELSE IF diff < 3600 THEN Decimal(round(diff, 60)) \o "m ago"
        ELSE IF diff < 86400 THEN Decimal(round(diff, 3600)) \o "h ago"
        ELSE Decimal(round(diff, 86400)) \o "d ago"

\* getTimeAgo(date) with new Date() reading now.
GetTimeAgo(now, date) ==
    LET diff == FloorDiv(now - date, 1000)
    IN  IF diff < 60 THEN "Just now"
        ELSE IF diff < 3600 THEN Decimal(FloorDiv(diff, 60)) \o "m ago"
        ELSE IF diff < 86400 THEN Decimal(FloorDiv(diff, 3600)) \o "h ago"
        ELSE Decimal(FloorDiv(diff, 86400)) \o "d ago"

\* Clock readings, ages in whole seconds (around every threshold, in the
\* future, and the ages of the specification's example) and the part of a
\* second on top of them.
ClockMs == {1000000000, 1000000500}

AgeSeconds ==
    {-90000, -61, -1, 0, 1, 10, 59, 60, 61, 90, 119, 120, 3000, 3599, 3600, 3601,
     5400, 7199, 7200, 86399, 86400, 86401, 90000, 129600, 172799, 172800}

AgeMillis == {0, 1, 999}

Timestamps(now) == {now - 1000 * a - m : a \in AgeSeconds, m \in AgeMillis}

\* displayNotifications() calls this.getTimeAgo(new Date(notification.timestamp))
\* for a record.
GetTimeAgoCall ==
    /\ \E now \in ClockMs :
          \E date \in Timestamps(now) :
              timeAgo' = [now |-> now, date |-> date, label |-> GetTimeAgo(now, date)]
    /\ UNCHANGED <<swVars, srvVars, lastIcon, csrf_token, page, bootVars, countInFlight,
                   countRequests, ticks, timerStarted, listenerAttached, pollVars,
                   listVars, markVars, requested, csrfSent, uncaught, initLog>>

TimeInit == ListInit

TimeNext == GetTimeAgoCall

TimeSpec == TimeInit /\ [][TimeNext]_vars

(***************************************************************************)
(* getNotificationIcon(type, event), the icon of a record.                 *)
(***************************************************************************)

\* value === 'text'
StrictEquals(value, text) == value.t = "string" /\ value.s = text

\* Mutant of GetNotificationIcon: the event is looked at for every type.
GetNotificationIconEventFirst(type, event) ==
    CASE StrictEquals(event, "entry") -> "sign-in-alt"
      [] StrictEquals(event, "exit") -> "sign-out-alt"
      [] StrictEquals(type, "geofence") -> "map-marker-alt"
      [] StrictEquals(type, "device") -> "mobile-alt"
      [] StrictEquals(type, "system") -> "cog"
      [] OTHER -> "bell"

\* getNotificationIcon(type, event): a switch on the type, which compares
\* with ===.
GetNotificationIcon(type, event) ==
    CASE StrictEquals(type, "geofence") ->
           IF StrictEquals(event, "entry") THEN "sign-in-alt"
           ELSE IF StrictEquals(event, "exit") THEN "sign-out-alt"
           ELSE "map-marker-alt"
      [] StrictEquals(type, "device") -> "mobile-alt"
      [] StrictEquals(type, "system") -> "cog"
      [] OTHER -> "bell"

\* notification_type and event_type values of a record: the documented
\* ones, unknown, differently cased and empty texts, a missing field, null
\* and a number.
IconTypes ==
    {JsUndefined, JsNull, JsNum(0)}
    \cup {JsStr(x) : x \in {"geofence", "device", "system", "bogus", "",
                           "Geofence", "entry", "alert"}}

IconEvents ==
    {JsUndefined, JsNull, JsNum(0)}
    \cup {JsStr(x) : x \in {"entry", "exit", "dwell", "", "Entry", "online",
                           "geofence"}}

\* displayNotifications() calls this.getNotificationIcon(
\* notification.notification_type, notification.event_type) for a record.
GetNotificationIconCall ==
    /\ \E type \in IconTypes, event \in IconEvents :
          lastIcon' = [ran |-> TRUE, type |-> type, event |-> event,
                       icon |-> GetNotificationIcon(type, event)]
    /\ UNCHANGED <<swVars, srvVars, timeAgo, csrf_token, page, bootVars, countInFlight,
                   countRequests, ticks, timerStarted, listenerAttached, pollVars,
                   listVars, markVars, requested, csrfSent, uncaught, initLog>>

IconInit == ListInit

IconNext == GetNotificationIconCall

IconSpec == IconInit /\ [][IconNext]_vars


(***************************************************************************)
(* Several tabs.  Every page load constructs a controller of its own       *)
(* (DOMContentLoaded); the tabs of a user meet at the server only.  A      *)
(* count request is answered by the server when it is issued, with the     *)
(* unread count of that moment, and the response reaches the tab later or  *)
(* not at all.  TabsSpec starts when every tab has run init().             *)
(***************************************************************************)
\* The ways a count request ends that differ in effect.
TabCountKinds == {"rejected", "notSuccess", "success"}

\* loadNotificationCount() up to its await, and the server's answer.
TabRequest(tab) ==
    [tab EXCEPT !.replies = Append(@, [count |-> serverUnread,
                                       version |-> serverVersion])]

\* setInterval(() => this.loadNotificationCount(), 30000) fires in tab t.
TabPoll(t) ==
    /\ tabCalls.polls < MaxTabPolls
    /\ tabCalls' = [tabCalls EXCEPT !.polls = @ + 1]
    /\ tabs' = [tabs EXCEPT ![t] = TabRequest(@)]
    /\ UNCHANGED <<swVars, ctlVars, serverUnread, serverVersion, consoleLog>>

\* A count response reaches tab t and loadNotificationCount() runs to its
\* end.
TabCountResponse(t) ==
    /\ \E i \in DOMAIN tabs[t].replies, kind \in TabCountKinds :
          LET r == tabs[t].replies[i]
              outcome == [kind |-> kind,
                          count |-> IF kind = "success" THEN r.count ELSE 0]
              after == IF CountApplies(outcome)
                       THEN BadgeAfter(tabs[t], outcome.count)
                       ELSE tabs[t]
          IN  tabs' = [tabs EXCEPT ![t] =
                          [after EXCEPT !.replies = Without(@, i),
                                        !.seen = IF kind = "success"
                                                 THEN r.version ELSE @]]
    /\ UNCHANGED <<swVars, ctlVars, serverUnread, serverVersion, tabCalls,
                   consoleLog>>

\* markNotificationRead(id) in tab t up to its await, and what the server
\* does with the PUT: on a 2xx answer an unread record is read now.
TabMarkRead(t) ==
    /\ tabCalls.marks < MaxTabMarks
    /\ tabs[t].marking = "none"
    /\ tabCalls' = [tabCalls EXCEPT !.marks = @ + 1]
    /\ \E outcome \in PutOutcomes :
          /\ tabs' = [tabs EXCEPT ![t].marking = outcome]
          /\ IF outcome = "ok" /\ serverUnread > 0
             THEN /\ serverUnread' = serverUnread - 1
                  /\ serverVersion' = serverVersion + 1
             ELSE UNCHANGED <<serverUnread, serverVersion>>
    /\ UNCHANGED <<swVars, ctlVars, consoleLog>>

\* The PUT settles in tab t: on a 2xx status loadNotificationCount() is
\* called.
TabMarkResponse(t) ==
    /\ tabs[t].marking # "none"
    /\ tabs' = [tabs EXCEPT ![t] =
                    [(IF MarkReadApplies(tabs[t].marking)
                      THEN TabRequest(@) ELSE @) EXCEPT !.marking = "none"]]
    /\ UNCHANGED <<swVars, ctlVars, serverUnread, serverVersion, tabCalls,
                   consoleLog>>

\* setTimeout(() => badge.classList.remove('notification-badge-animate'),
\* 500) fires in tab t.
AnimationEnds(t) ==
    /\ tabs[t].animate
    /\ tabs' = [tabs EXCEPT ![t].animate = FALSE]
    /\ UNCHANGED <<swVars, ctlVars, serverUnread, serverVersion, tabCalls,
                   consoleLog>>

\* The server creates a notification for the user.
ServerNotifies ==
    /\ serverVersion < MaxServerChanges
    /\ serverUnread' = serverUnread + 1
    /\ serverVersion' = serverVersion + 1
    /\ UNCHANGED <<swVars, ctlVars, tabs, tabCalls, consoleLog>>

\* Every tab has run init() on a page with the badge element: nothing is
\* stored or shown yet and the first count request is out.
TabsInit ==
    /\ SWParked
    /\ CtlParked
    /\ serverUnread \in 1..2
    /\ serverVersion = 0
    /\ tabCalls = [polls |-> 0, marks |-> 0]
    /\ consoleLog = {}
    /\ tabs = [t \in Tabs |->
                  [NoTab EXCEPT !.replies = <<[count |-> serverUnread,
                                               version |-> 0]>>]]

TabsNext ==
    \/ \E t \in Tabs : TabPoll(t)
    \/ \E t \in Tabs : TabCountResponse(t)
    \/ \E t \in Tabs : TabMarkRead(t)
    \/ \E t \in Tabs : TabMarkResponse(t)
    \/ \E t \in Tabs : AnimationEnds(t)
    \/ ServerNotifies

TabsSpec == TabsInit /\ [][TabsNext]_vars



(***************************************************************************)
(* The dropdown opened again.  RaceSpec is ListSpec without the mark-all   *)
(* button and with a dropdown that is clicked again while list and         *)
(* mark-read requests are out.                                             *)
(***************************************************************************)
DropdownReopen == DropdownOpen(MaxReopens)

\* The mark-read response, with the server's read set followed for every
\* record.
MarkReadFollowed == MarkReadResponseOf(MarkableIds)

\* The list response, with its success flag observed.
ListObserved == ListResponseOf(TRUE)

RaceInit == ListInit

RaceNext ==
    \/ DropdownReopen
    \/ ListObserved
    \/ CountResponse
    \/ MarkNotificationRead
    \/ MarkReadFollowed

RaceSpec == RaceInit /\ [][RaceNext]_vars

(***************************************************************************)
(* The console.  Each network operation of the controller is a try block   *)
(* with a catch block that calls console.error; how an operation ends      *)
(* ("apply": the response is used, "skip": it is dropped without a word,   *)
(* "caught": the catch block logs) depends on the outcome of its request   *)
(* only.  LogSpec settles operations one after the other and keeps what   *)
(* the console got.                                                        *)
(***************************************************************************)
\* loadNotificationCount()
LoadNotificationCount(outcome) ==
    IF CountApplies(outcome) THEN "apply"
    ELSE IF outcome.kind = "notSuccess" THEN "skip"
    ELSE "caught"

\* markNotificationRead(): "if (response.ok)" has no else branch.
MarkNotificationReadEnd(outcome) ==
    IF MarkReadApplies(outcome) THEN "apply"
    ELSE IF outcome = "non2xx" THEN "skip"
    ELSE "caught"

\* markAllNotificationsRead(): "if (response.ok)" has no else branch.
MarkAllNotificationsReadEnd(outcome) ==
    IF MarkAllApplies(outcome) THEN "apply"
    ELSE IF outcome = "non2xx" THEN "skip"
    ELSE "caught"

\* getVAPIDPublicKey(): the catch block logs; a body without publicKey
\* returns undefined, and the catch block of subscribeToPush() logs the
\* TypeError urlBase64ToUint8Array throws on it.
GetVAPIDPublicKeyEnd(outcome) ==
    IF GetVAPIDPublicKey(outcome) = FallbackKey THEN "caught"
    ELSE IF UrlBase64Decodes(GetVAPIDPublicKey(outcome)) THEN "apply"
    ELSE "caught"

\* sendSubscriptionToServer(): "if (!response.ok) throw".
SendSubscriptionToServer(outcome) == IF outcome = "ok" THEN "apply" ELSE "caught"

\* The operations and the outcomes of their requests.
Operations ==
    {[op |-> "count", kind |-> o.kind] : o \in CountOutcomes}
    \cup {[op |-> "list", kind |-> o.kind] : o \in ListOutcomes}
    \cup {[op |-> "markOne", kind |-> o] : o \in PutOutcomes}
    \cup {[op |-> "markAll", kind |-> o] : o \in PutOutcomes}
    \cup {[op |-> "key", kind |-> o] : o \in KeyOutcomes}
    \cup {[op |-> "post", kind |-> o] : o \in PutOutcomes}

HowEnds(o, hasList) ==
    CASE o.op = "count" -> LoadNotificationCount([kind |-> o.kind, count |-> 3])
      [] o.op = "list" ->
            (IF LoadNotifications([kind |-> o.kind, notifications |-> <<>>],
                                  hasList) = "display"
             THEN "apply"
             ELSE LoadNotifications([kind |-> o.kind, notifications |-> <<>>],
                                    hasList))
      [] o.op = "markOne" -> MarkNotificationReadEnd(o.kind)
      [] o.op = "markAll" -> MarkAllNotificationsReadEnd(o.kind)
      [] o.op = "key" -> GetVAPIDPublicKeyEnd(o.kind)
      [] OTHER -> SendSubscriptionToServer(o.kind)

\* An operation settles.
OperationSettles ==
    /\ Cardinality(consoleLog) < MaxSettled
    /\ \E o \in Operations :
          consoleLog' = consoleLog \cup
              {[op |-> o.op, kind |-> o.kind,
                logged |-> HowEnds(o, page.list) = "caught",
                ui |-> HowEnds(o, page.list) = "apply"]}
    /\ UNCHANGED <<swVars, ctlVars, tabs, serverUnread, serverVersion, tabCalls>>

LogInit == AfterInit({"token"})

LogNext == OperationSettles

LogSpec == LogInit /\ [][LogNext]_vars

(***************************************************************************)
(* The service worker's specifications, with the controller's variables    *)
(* held still.  SWSpec is the activated worker receiving push and          *)
(* notificationclick events with every payload of the model; SWLifeSpec is *)
(* the worker from its install event on, receiving every kind of event    *)
(* (with the two push payloads that have no JSON in them).                *)
(***************************************************************************)
SWInit ==
    /\ CtlParked
    /\ SrvParked
    /\ SWParked

\* Every push event of the model with what the listener does with it.
PushOutcomes ==
    { LET r == PushHandler(ev, now) IN
      [event |-> ev, now |-> now, threw |-> r.threw, options |-> r.options,
       shown |-> r.shown, held |-> r.held] :
        ev \in PushEvents, now \in ClockReadings }

PlainPushOutcomes ==
    {o \in PushOutcomes : ~o.event.present \/ o.event.text = "not json{"}

lifeVars == <<swState, swCaches, installLog, lastFetch, lastSync>>

\* self.addEventListener('push', ...).  Events are dispatched to an
\* activated worker only.
Push(outcomes) ==
    /\ swState = "activated"
    /\ swPushes < MaxPush
    /\ \E o \in outcomes :
          /\ lastPush' = o
          /\ swShown' = swShown + Len(o.shown)
          /\ swOpen' = swOpen \o [i \in DOMAIN o.shown |-> ActionNames(o.shown[i])]
          /\ swThrown' = swThrown + (IF o.threw THEN 1 ELSE 0)
    /\ swPushes' = swPushes + 1
    /\ UNCHANGED <<swClicks, lastClick, lifeVars, ctlVars, srvVars>>

OnPush == Push(PushOutcomes)

OnPlainPush == Push(PlainPushOutcomes)

\* self.addEventListener('notificationclick', ...): the user clicks one of
\* the notifications on display.
OnNotificationClick ==
    /\ swState = "activated"
    /\ swClicks < MaxClick
    /\ \E n \in DOMAIN swOpen :
          \E a \in ClickActions(swOpen[n]) :
             LET did == ClickHandler(a) IN
             /\ lastClick' = [action |-> a, did |-> did]
             /\ swOpen' = IF \E i \in DOMAIN did : did[i].op = "close"
                          THEN [i \in 1..(Len(swOpen) - 1) |->
                                   IF i < n THEN swOpen[i] ELSE swOpen[i + 1]]
                          ELSE swOpen
    /\ swClicks' = swClicks + 1
    /\ UNCHANGED <<swPushes, swShown, swThrown, lastPush, lifeVars, ctlVars, srvVars>>

SWNext == OnPush \/ OnNotificationClick

SWSpec == SWInit /\ [][SWNext]_vars

SWLifeInit ==
    /\ CtlParked
    /\ SrvParked
    /\ swPushes = 0
    /\ swShown = 0
    /\ swThrown = 0
    /\ swOpen = <<>>
    /\ lastPush = NoPush
    /\ swClicks = 0
    /\ lastClick = NoClick
    /\ swState = "installing"
    /\ swCaches = NoCaches
    /\ installLog = NotInstalled
    /\ lastFetch = NoFetch
    /\ lastSync = NoSync

pushVars == <<swPushes, swShown, swThrown, swOpen, lastPush, swClicks, lastClick>>

\* self.addEventListener('install', ...): the worker is installed when the
\* promise handed to event.waitUntil resolves and discarded when it rejects.
OnInstall ==
    /\ swState = "installing"
    /\ \E fetched \in AssetOutcomes, storage \in StorageOutcomes :
          LET r == InstallHandler(swCaches, fetched, storage) IN
          /\ swCaches' = r.store
          /\ installLog' = [ran |-> TRUE, fetched |-> fetched,
                            storage |-> storage, resolved |-> r.resolved]
          /\ swState' = IF r.resolved THEN "installed" ELSE "redundant"
    /\ UNCHANGED <<pushVars, lastFetch, lastSync, ctlVars, srvVars>>

\* The browser activates the installed worker (sw.js has no activate
\* listener that could delay or fail it).
Activate ==
    /\ swState = "installed"
    /\ swState' = "activated"
    /\ UNCHANGED <<pushVars, swCaches, installLog, lastFetch, lastSync, ctlVars, srvVars>>

\* self.addEventListener('fetch', ...)
OnFetch ==
    /\ swState = "activated"
    /\ \E req \in FetchRequests, net \in NetworkStates :
          LET r == FetchHandler(swCaches, req, net) IN
          /\ lastFetch' = [ran |-> TRUE, req |-> req, net |-> net,
                           network |-> r.network, response |-> r.response]
          /\ swCaches' = [swCaches EXCEPT !.entries = @ \cup r.puts]
    /\ UNCHANGED <<pushVars, swState, installLog, lastSync, ctlVars, srvVars>>

\* self.addEventListener('sync', ...)
OnSync ==
    /\ swState = "activated"
    /\ \E tag \in SyncTags :
          lastSync' = [ran |-> TRUE, tag |-> tag, held |-> SyncHandler(tag)]
    /\ UNCHANGED <<pushVars, swState, swCaches, installLog, lastFetch, ctlVars, srvVars>>

SWLifeNext ==
    \/ OnInstall
    \/ Activate
    \/ OnFetch
    \/ OnSync
    \/ OnPlainPush
    \/ OnNotificationClick

SWLifeSpec == SWLifeInit /\ [][SWLifeNext]_vars


(***************************************************************************)
(* Claims about the NotificationSystem (checked under Spec and FairSpec)   *)
(***************************************************************************)
RECURSIVE PostsIssued(_)
PostsIssued(log) ==
    IF log = <<>> THEN 0 ELSE log[Len(log)].posts + PostsIssued(SubSeq(log, 1, Len(log) - 1))

\* C1: when subscribeToPush() is called again after a call that created the
\* browser subscription, exactly one POST to /api/push/subscribe is issued in
\* total: the later call fetches no key, creates no subscription and sends
\* nothing to the server.
C1_IdempotentSubscribe ==
    \A i, j \in DOMAIN subLog :
        (i < j /\ subLog[i].done /\ subLog[i].created) =>
            /\ PostsIssued(subLog) = 1
            /\ ~subLog[j].keyFetched
            /\ ~subLog[j].created
            /\ subLog[j].posts = 0

C1_Witness ==
    /\ Len(subLog) >= 2
    /\ subLog[1].done /\ subLog[1].created /\ subLog[1].posts = 1
    /\ subLog[2].done /\ subLog[2].found
    /\ PostsIssued(subLog) = 1

\* C2: a count poll that does not end in a response with success = true
\* (fetch rejected, body not parseable, success flag false) leaves the stored
\* unread count, the badge text and the badge visibility as they were; and
\* while the responses processed are success(5), failure, success(3), the
\* badge displays 5, 5, 3.
C2_FailedPollKeepsBadge ==
    /\ [][(lastPoll'.n = lastPoll.n + 1 /\ ~lastPoll'.ok) =>
             UNCHANGED <<notificationCount, badgeText, badgeDisplay>>]_vars
    /\ [](page.badge =>
             /\ pattern = 1 => Displayed(badgeText, badgeDisplay) = 5
             /\ pattern = 2 => Displayed(badgeText, badgeDisplay) = 5
             /\ pattern = 3 => Displayed(badgeText, badgeDisplay) = 3)

C2_Witness ==
    /\ page.badge
    /\ pattern = 3
    /\ lastPoll.n = 3
    /\ Displayed(badgeText, badgeDisplay) = 3
    /\ notificationCount = 3

\* C3: in every reachable state, on any page (with or without the badge
\* element), the stored unread count equals the unread_count of the most
\* recent success response processed, or 0 if there was none.
C3_CountIsLastSuccess == notificationCount = lastSuccess

\* C4: whichever way the push bootstrap fails (APIs absent, registration
\* rejected, permission denied, key fetch failed, browser subscribe rejected,
\* subscription POST failed or non-2xx), init() still issues the initial
\* unread-count request, attaches the dropdown listener (where the page has
\* a dropdown) and starts the repeating poll: once a failure has happened,
\* either init() has done all three, or it is waiting for a step that the
\* browser can take (the rest of the subscription, or its own resumption)
\* and has not ended otherwise.
PollingUp ==
    /\ initPc = "done"
    /\ countRequests >= 1
    /\ timerStarted
    /\ page.dropdown => listenerAttached

C4_BootFailureTolerated ==
    bootFail # {} =>
        \/ PollingUp
        \/ /\ initPc \in {"subscribing", "booted"}
           /\ ENABLED BootProgress

\* ... and the dropdown list can still be fetched and rendered.
C4_Witness ==
    /\ {"key", "post"} \subseteq bootFail
    /\ PollingUp
    /\ listRenders > 0
    /\ listView.kind = "items"

\* C5: push enablement never blocks the rest of the controller: in every
\* execution the initial unread-count poll is eventually issued and the
\* repeating poll eventually started, also while a permission prompt stays
\* unanswered.
C5_PollNeverWaitsForPush == <>(countRequests >= 1 /\ timerStarted)

(***************************************************************************)
(* Claims about the PushAgent (checked under SWSpec)                       *)
(***************************************************************************)

\* C6: for every push event, whatever its payload, the push listener raises
\* no exception and calls showNotification exactly once, with a non-empty
\* title; no push event is dropped or coalesced.
C6_PushShowsOnceWithTitle ==
    /\ swThrown = 0
    /\ swShown = swPushes
    /\ swPushes > 0 =>
          /\ ~lastPush.threw
          /\ Len(lastPush.shown) = 1
          /\ lastPush.shown[1].title # ""

\* C7: a push event whose payload cannot be parsed as JSON shows exactly one
\* notification, whose body is the payload text (the default body when the
\* text is empty) and whose title is the default title.
C7_PayloadFallback ==
    (swPushes > 0 /\ lastPush.event.present /\ ~lastPush.event.parsed.ok) =>
        /\ Len(lastPush.shown) = 1
        /\ lastPush.shown[1].title = DefaultTitle
        /\ lastPush.shown[1].body =
              (IF lastPush.event.text = "" THEN DefaultBody ELSE lastPush.event.text)

C7_Witness ==
    /\ swPushes > 0
    /\ lastPush.event.present
    /\ lastPush.event.text = "not json{"
    /\ Len(lastPush.shown) = 1
    /\ lastPush.shown[1].body = "not json{"

\* C8: a push event with no data shows exactly one notification with the
\* default title, body, icon, badge and vibration pattern and exactly the
\* two default actions explore and close, in that order.
C8_EmptyPushDefault ==
    (swPushes > 0 /\ ~lastPush.event.present) =>
        /\ Len(lastPush.shown) = 1
        /\ lastPush.shown[1].title = "iTrax Notification"
        /\ lastPush.shown[1].body = "You have a new notification"
        /\ lastPush.shown[1].icon = "/static/images/favicon.ico"
        /\ lastPush.shown[1].badge = "/static/images/badge.png"
        /\ lastPush.shown[1].vibrate = <<200, 100, 200>>
        /\ Len(lastPush.shown[1].actions) = 2
        /\ lastPush.shown[1].actions[1].action = "explore"
        /\ lastPush.shown[1].actions[2].action = "close"

C8_Witness ==
    /\ swPushes > 0
    /\ ~lastPush.event.present
    /\ Len(lastPush.shown) = 1
    /\ lastPush.shown[1].title = "iTrax Notification"

\* C9: for a payload that parses to an object, the options passed to
\* showNotification have title = payload.title if that is non-empty, else the
\* default title; body = payload.body if non-empty, else payload.message if
\* non-empty, else the default body; icon = payload.icon if non-empty, else
\* the default icon; and the data bag holds every field of the payload with
\* the payload's value, and dateOfArrival and primaryKey with their defaults
\* where the payload has no such field.  "Non-empty" is read as the code's
\* test reads it (JavaScript truthiness), which for a string is having at
\* least one character.
IsObjectPayload ==
    /\ swPushes > 0
    /\ lastPush.event.present
    /\ lastPush.event.parsed.ok
    /\ lastPush.event.parsed.val.t = "object"

C10_CloseFirstOnce ==
    swClicks > 0 =>
        LET did == lastClick.did IN
        /\ Cardinality({i \in DOMAIN did : did[i].op = "close"}) = 1
        /\ \A i, j \in DOMAIN did :
              (did[i].op = "close" /\ did[j].op = "openWindow") => i < j

C10_Witness ==
    /\ swClicks > 0
    /\ lastClick.action = "explore"
    /\ Len(lastClick.did) = 2
    /\ lastClick.did[1].op = "close"
    /\ lastClick.did[2].op = "openWindow"

\* C11: a click with action 'explore' opens exactly one window, at
\* /notifications/all; with action 'close' no window is opened and nothing
\* follows the closing of the notification; with any other action, or none
\* (a click on the body), exactly one window is opened, at /; and every
\* window opening is handed to event.waitUntil.
WindowsOpened(did) == SelectSeq(did, LAMBDA d : d.op = "openWindow")

C11_ClickRouting ==
    swClicks > 0 =>
        LET w == WindowsOpened(lastClick.did) IN
        /\ lastClick.action = "explore" =>
              Len(w) = 1 /\ w[1].url = "/notifications/all"
        /\ lastClick.action = "close" =>
              Len(w) = 0 /\ Len(lastClick.did) = 1
        /\ lastClick.action \notin {"explore", "close"} =>
              Len(w) = 1 /\ w[1].url = "/"
        /\ \A i \in DOMAIN w : w[i].held

C11_Witness ==
    /\ swClicks > 1
    /\ lastClick.action = ""
    /\ WindowsOpened(lastClick.did) =
          <<[op |-> "openWindow", url |-> "/", held |-> TRUE]>>

(***************************************************************************)
(* Claims about the PushAgent's install, fetch and sync events (checked    *)
(* under SWLifeSpec)                                                       *)
(***************************************************************************)
NoEventHandled ==
    /\ swPushes = 0
    /\ swClicks = 0
    /\ ~lastFetch.ran
    /\ ~lastSync.ran

\* C12: the install step succeeds if and only if each of the four manifest
\* assets was fetched and is stored in the cache itrax-v1; when it fails
\* nothing of the manifest is stored, the worker never becomes activated,
\* and it handles no fetch, push, notificationclick or sync event.
C12_InstallAllOrNothing ==
    installLog.ran =>
        /\ installLog.resolved <=>
              /\ Range(urlsToCache) \subseteq installLog.fetched
              /\ \A u \in Range(urlsToCache) :
                    [cache |-> "itrax-v1", url |-> u] \in swCaches.entries
        /\ ~installLog.resolved =>
              /\ swCaches.entries = {}
              /\ swState = "redundant"
              /\ NoEventHandled

C12_Witness ==
    /\ installLog.ran
    /\ installLog.storage = "ok"
    /\ installLog.fetched = Range(urlsToCache) \ {"/static/js/notifications.js"}
    /\ ~installLog.resolved
    /\ swState = "redundant"

\* C13: for every intercepted request, when the cache holds a matching
\* response the handler answers with it and makes no network request,
\* whether the network is up or not; when it holds none the handler makes
\* exactly one network request, for that request, and answers with its
\* outcome.
C13_CacheFirst ==
    lastFetch.ran =>
        LET req == lastFetch.req
            cached == req.method = "GET"
                      /\ \E e \in swCaches.entries : e.url = req.url
        IN  /\ cached =>
                  /\ lastFetch.network = <<>>
                  /\ lastFetch.response = [from |-> "cache", url |-> req.url, ok |-> TRUE]
            /\ ~cached =>
                  /\ lastFetch.network = <<req>>
                  /\ lastFetch.response =
                        [from |-> "network", url |-> req.url, ok |-> lastFetch.net = "up"]

C13_Witness ==
    /\ lastFetch.ran
    /\ lastFetch.req = [method |-> "GET", url |-> "/static/js/notifications.js"]
    /\ lastFetch.net = "up"
    /\ lastFetch.network = <<>>
    /\ lastFetch.response.from = "cache"

\* C14: once the install event has been handled no step changes the cache
\* storage, and an activated worker's cache storage is the cache itrax-v1
\* holding exactly the four manifest assets.
C14_CacheWrittenAtInstallOnly ==
    /\ [][installLog.ran => UNCHANGED swCaches]_vars
    /\ [](swState = "activated" =>
             swCaches = [names |-> {"itrax-v1"}, entries |-> ManifestEntries])

C14_Witness ==
    /\ swState = "activated"
    /\ lastFetch.ran
    /\ lastFetch.response = [from |-> "network", url |-> "/?page=2", ok |-> TRUE]
    /\ lastSync.ran
    /\ swPushes > 0
    /\ swClicks > 0
    /\ swCaches.entries = ManifestEntries

(***************************************************************************)
(* Claims about the dropdown list and the mark-read operations (checked    *)
(* under ListSpec)                                                         *)
(***************************************************************************)

\* A step in which a mark-read response is processed.
MarkReadSettles == lastMark'.n = lastMark.n + 1

\* A step in which a mark-all-read response is processed.
MarkAllSettles == lastMarkAll'.n = lastMarkAll.n + 1

\* C15: in the step in which markNotificationRead(id) receives its 2xx
\* response, the list element of record id (when the list has one) loses the
\* class unread and its New badge, and exactly one unread-count request is
\* issued.
C15_MarkReadReconciles ==
    [][(MarkReadSettles /\ lastMark'.outcome = "ok") =>
          /\ LET i == FirstItem(listView.items, lastMark'.id)
             IN  i # 0 => /\ listView'.items[i].id = lastMark'.id
                          /\ listView'.items[i].cls # "unread"
                          /\ ~listView'.items[i].badge
          /\ countRequests' = countRequests + 1
          /\ countInFlight' = countInFlight + 1]_vars

C15_Witness ==
    /\ lastMark = [n |-> 1, id |-> 1, outcome |-> "ok"]
    /\ lastList = <<[id |-> 1, is_read |-> FALSE]>>
    /\ listView.items = <<[id |-> 1, cls |-> "read", badge |-> FALSE]>>
    /\ countRequests = 2

\* C16: markNotificationRead() changes nothing in the list before its
\* request is confirmed: the step that issues the request leaves the list
\* as it is; a response that is a rejection or a non-2xx status leaves the
\* list as it is and issues no request; and, between two renderings of the
\* list from a server response, an element changes only in the step that
\* processes a 2xx mark-read response for its id, and only from unread to
\* read.
C16_NoOptimisticMutation ==
    [][/\ marks' = marks + 1 => UNCHANGED listView
       /\ (MarkReadSettles /\ lastMark'.outcome # "ok") =>
             UNCHANGED <<listView, countRequests, countInFlight>>
       /\ (listRenders' = listRenders /\ listView' # listView) =>
             /\ MarkReadSettles
             /\ lastMark'.outcome = "ok"
             /\ listView'.kind = listView.kind
             /\ DOMAIN listView'.items = DOMAIN listView.items
             /\ \A i \in DOMAIN listView.items :
                   listView'.items[i] # listView.items[i] =>
                       /\ listView.items[i].id = lastMark'.id
                       /\ listView.items[i].cls = "unread"]_vars

C16_Witness ==
    /\ lastMark = [n |-> 1, id |-> 2, outcome |-> "non2xx"]
    /\ listView.kind = "items"
    /\ listView.items[1] = [id |-> 2, cls |-> "unread", badge |-> TRUE]
    /\ countRequests = 1

\* C17: the step in which markAllNotificationsRead() receives a 2xx response
\* issues exactly one list request and exactly one unread-count request and
\* changes neither the list nor the badge; the step in which it receives a
\* rejection or a non-2xx status issues no request and changes neither; and
\* the step that issues the mark-all request changes neither.
C17_MarkAllReloads ==
    [][/\ (MarkAllSettles /\ lastMarkAll'.outcome = "ok") =>
             /\ listInFlight' = listInFlight + 1
             /\ countRequests' = countRequests + 1
             /\ countInFlight' = countInFlight + 1
             /\ UNCHANGED <<listView, listRenders, badgeText, badgeDisplay>>
       /\ (MarkAllSettles /\ lastMarkAll'.outcome # "ok") =>
             UNCHANGED <<listInFlight, countRequests, countInFlight, listView,
                         listRenders, badgeText, badgeDisplay>>
       /\ markAlls' = markAlls + 1 =>
             UNCHANGED <<listInFlight, countRequests, countInFlight, listView,
                         listRenders, badgeText, badgeDisplay>>]_vars

\* The list has been rendered from the request that mark-all issued (the
\* dropdown was never clicked).
C17_Witness ==
    /\ lastMarkAll = [n |-> 1, outcome |-> "ok"]
    /\ opens = 0
    /\ listRenders = 1
    /\ listView.kind = "items"
    /\ countRequests = 2

\* C18: once the list has been rendered from a list response, the ids of
\* its elements are the ids of the records of the response rendered last,
\* in number and order; and every request issued that is not a GET is the
\* mark-one-read, the mark-all-read or the subscription registration
\* request.
ShownIds == [i \in DOMAIN listView.items |-> listView.items[i].id]

C18_ListMirrorsServer ==
    /\ listRenders > 0 =>
          /\ Len(ShownIds) = Len(lastList)
          /\ \A i \in DOMAIN lastList : ShownIds[i] = lastList[i].id
    /\ \A r \in requested :
          r.method # "GET" =>
              r \in {[method |-> "PUT", route |-> "/api/notifications/<id>/read"],
                     [method |-> "PUT", route |-> "/api/notifications/mark-all-read"],
                     [method |-> "POST", route |-> "/api/push/subscribe"]}

C18_Witness ==
    /\ listRenders > 0
    /\ ShownIds = <<2, 1>>
    /\ Len(lastList) = 2
    /\ lastMark.outcome = "ok"
    /\ MarkReadRequest \in requested
    /\ MarkAllRequest \in requested

\* C19: when the list response rendered last had no records, the list
\* element holds the empty-state message "No notifications" and no record
\* element (neither nothing at all nor the list shown before).
C19_EmptyListMessage ==
    (listRenders > 0 /\ Len(lastList) = 0) =>
        /\ listView.kind = "empty"
        /\ listView.text = "No notifications"
        /\ listView.items = <<>>

\* ... as the second rendering, in place of what the first one wrote.
C19_Witness ==
    /\ listRenders = 2
    /\ Len(lastList) = 0
    /\ listView.text = "No notifications"

(***************************************************************************)
(* Claim about getTimeAgo (checked under TimeSpec)                         *)
(***************************************************************************)

\* The age in whole seconds of the date of a getTimeAgo() call.
AgeOf(call) == (call.now - call.date) \div 1000

\* C20: with d the age in whole seconds, floor((now - timestamp) / 1000),
\* getTimeAgo returns "Just now" if d < 60 (a timestamp in the future
\* included), floor(d / 60) followed by "m ago" if 60 <= d < 3600,
\* floor(d / 3600) followed by "h ago" if 3600 <= d < 86400, and
\* floor(d / 86400) followed by "d ago" otherwise; the ages 10, 90, 3000 and
\* 90000 give "Just now", "1m ago", "50m ago" and "1d ago".
C20_RelativeTimeLabel ==
    timeAgo # NoTimeAgo =>
        LET d == AgeOf(timeAgo) IN
        /\ d < 60 => timeAgo.label = "Just now"
        /\ (60 <= d /\ d < 3600) =>
              \E n \in 1..59 : /\ 60 * n <= d /\ d < 60 * (n + 1)
                               /\ timeAgo.label = Decimal(n) \o "m ago"
        /\ (3600 <= d /\ d < 86400) =>
              \E n \in 1..23 : /\ 3600 * n <= d /\ d < 3600 * (n + 1)
                               /\ timeAgo.label = Decimal(n) \o "h ago"
        /\ 86400 <= d =>
              \E n \in 1..3 : /\ 86400 * n <= d /\ d < 86400 * (n + 1)
                              /\ timeAgo.label = Decimal(n) \o "d ago"
        /\ d = 10 => timeAgo.label = "Just now"
        /\ d = 90 => timeAgo.label = "1m ago"
        /\ d = 3000 => timeAgo.label = "50m ago"
        /\ d = 90000 => timeAgo.label = "1d ago"

C20_Witness ==
    /\ AgeOf(timeAgo) = 7199
    /\ timeAgo.date = timeAgo.now - 7199999
    /\ timeAgo.label = "1h ago"


(***************************************************************************)
(* Claims about getNotificationIcon (IconSpec).                            *)
(***************************************************************************)

\* C21: icon selection is total: every (notification_type, event_type)
\* pair gets an icon; geofence with entry gets the sign-in icon, geofence
\* with exit the sign-out icon, geofence with any other event the map pin,
\* device the mobile icon, system the gear, every other or missing type
\* the bell; and for a type other than geofence every event_type gives the
\* same icon.
C21_IconSelection ==
    lastIcon.ran =>
        LET type == lastIcon.type
            event == lastIcon.event
            icon == lastIcon.icon
        IN  /\ icon \in {"sign-in-alt", "sign-out-alt", "map-marker-alt",
                         "mobile-alt", "cog", "bell"}
            /\ type = JsStr("geofence") =>
                   /\ event = JsStr("entry") => icon = "sign-in-alt"
                   /\ event = JsStr("exit") => icon = "sign-out-alt"
                   /\ event \notin {JsStr("entry"), JsStr("exit")} =>
                          icon = "map-marker-alt"
            /\ type = JsStr("device") => icon = "mobile-alt"
            /\ type = JsStr("system") => icon = "cog"
            /\ type \notin {JsStr("geofence"), JsStr("device"), JsStr("system")} =>
                   icon = "bell"
            /\ type # JsStr("geofence") =>
                   \A other \in IconEvents :
                       GetNotificationIcon(type, other) = icon

C21_Witness ==
    /\ lastIcon.ran
    /\ lastIcon.type = JsStr("bogus")
    /\ lastIcon.event = JsStr("entry")
    /\ lastIcon.icon = "bell"


(***************************************************************************)
(* Claims about the csrf token (TokenSpec).                                *)
(***************************************************************************)

\* C22: on a page without a csrf-token meta element the constructor raises
\* no error, and every request that would carry the token is sent without
\* an X-CSRFToken header.
C22_NoTokenNoHeader ==
    csrf_token = CsrfTokenOf("absent") =>
        /\ uncaught = {}
        /\ \A r \in csrfSent : "X-CSRFToken" \notin DOMAIN r.headers


(***************************************************************************)
(* Claims about the controller's requests and init() (Spec).               *)
(***************************************************************************)

\* A count response is processed in this step.
CountSettles == lastPoll'.n = lastPoll.n + 1

\* C23: overlapping requests are tolerated with last write wins: a timer
\* firing issues its count request whatever else is in flight, and every
\* successful count response is applied when it is processed, so that the
\* stored unread count is then the count of that response (the one applied
\* last), in whatever order the requests were issued.
C23_LastWriteWins ==
    [][ /\ (ticks' = ticks + 1) =>
              (/\ countRequests' = countRequests + 1
               /\ countInFlight' = countInFlight + 1)
        /\ (CountSettles /\ lastPoll'.ok) =>
              (/\ notificationCount' = lastSuccess'
               /\ countInFlight' = countInFlight - 1) ]_vars


\* How often init() has made the call.
Calls(name) == Cardinality({i \in DOMAIN initLog : initLog[i] = name})

\* C24: the poll keeps running and recovers.  Once init() has started the
\* timer there is exactly one timer; nothing stops it: it can fire in
\* every state, whatever has failed before (up to the bound on firings of
\* the model); every firing has issued exactly one count request, next to
\* the one of init(); and when the last response processed was a success,
\* the badge (on a page that has one) shows its count.  So a poll after a failed one brings the display
\* to the server's count.
C24_PollKeepsRunning ==
    /\ Calls("setInterval") = (IF timerStarted THEN 1 ELSE 0)
    /\ initPc = "done" => timerStarted
    /\ (timerStarted /\ ticks < MaxTicks) => ENABLED TimerTick
    /\ countRequests = (IF timerStarted THEN 1 ELSE 0) + ticks
    /\ (page.badge /\ lastPoll.ok) =>
           Displayed(badgeText, badgeDisplay) = lastSuccess

\* A poll failed after a push bootstrap failure, and the next poll brought
\* the badge to the server's count.
C24_Witness ==
    /\ page.badge
    /\ bootFail # {}
    /\ ticks = 2
    /\ pattern = Len(PollExample)
    /\ lastPoll.ok
    /\ Displayed(badgeText, badgeDisplay) = 3


\* The key fetch of the subscribeToPush() call of init() settles in this
\* step.
KeySettles == subCaller = "init" /\ subPc = "getKey" /\ subPc' # "getKey"

\* C25: key fallback: whenever the public-key endpoint fails to supply a
\* key (the request is rejected, the body is no JSON, or it is JSON
\* without a publicKey), subscribeToPush() does not end there but goes on
\* to pushManager.subscribe() (with the hardcoded default key).
C25_KeyFallback ==
    [][ (KeySettles /\ "key" \in bootFail') => subPc' = "subscribing" ]_vars


\* C26: the browser subscription is mirrored to the server: once a later
\* subscribeToPush() call has run to its end over a subscription that an
\* earlier call of the controller created, the server has accepted a
\* registration of it (the later call transmits the existing subscription
\* when the POST of the creating call failed).
C26_SubscriptionMirrored ==
    \A i, j \in DOMAIN subLog :
        (/\ i < j
         /\ subLog[i].done /\ subLog[i].created
         /\ subLog[j].done /\ subLog[j].found) => serverSubs > 0


\* What displayNotifications() writes for the records of one response.
Rendering(notifications) ==
    IF Len(notifications) = 0 THEN EmptyState
    ELSE [kind |-> "items", text |-> "", items |-> RenderList(notifications)]

C28_InitOrder ==
    /\ initLog \in
          { <<"initializePushNotifications">>,
            <<"initializePushNotifications", "loadNotificationCount",
              "setupEventListeners", "setInterval">> }
    /\ Len(initLog) = 4 <=> initPc = "done"
    /\ initPc = "done" =>
          /\ subCaller # "init"
          /\ countRequests >= 1
          /\ listenerAttached = page.dropdown
          /\ timerStarted
          /\ lastPoll.n = 0 => countInFlight = countRequests
    /\ initPc # "done" =>
          /\ countRequests = 0
          /\ ~listenerAttached
          /\ ~timerStarted

\* init() has gone through a full push bootstrap and made its calls; the
\* first count request is still in flight.
C28_Witness ==
    /\ page.pushApis /\ page.dropdown
    /\ serviceWorkerRegistration
    /\ serverSubs = 1
    /\ Len(initLog) = 4
    /\ countRequests = 1 /\ countInFlight = 1
    /\ listenerAttached /\ timerStarted


\* The subscribeToPush() calls made by initializePushNotifications().
InitCalls == {i \in DOMAIN subLog : subLog[i].caller = "init"}

\* The steps of the push bootstrap of init() happen in order, each after
\* the one before it has succeeded: the permission is asked for only after
\* the registration, and only while it is 'default'; the existing
\* subscription is looked for only after the registration and with the
\* permission granted; the key is fetched only when no subscription was
\* found; the subscription is created only after the key fetch and with a
\* key that decodes; the POST is made only for a created subscription; and
\* a failed registration, a refused permission, a failed lookup, a key
\* that does not decode or a failed pushManager.subscribe() end the run.
FlowInOrder ==
    /\ Cardinality(InitCalls) <= 1
    /\ initPc = "prompting" => (serviceWorkerRegistration /\ permission = "default")
    /\ "register" \in bootFail =>
          (bootFail = {"register"} /\ ~serviceWorkerRegistration /\ InitCalls = {})
    /\ "denied" \in bootFail => (permission # "granted" /\ InitCalls = {})
    /\ \A i \in InitCalls :
          LET call == subLog[i] IN
          /\ serviceWorkerRegistration /\ permission = "granted"
          /\ call.keyFetched => (~call.found /\ "getSub" \notin bootFail)
          /\ call.created => (call.keyFetched /\ "decode" \notin bootFail)
          /\ call.posts > 0 => (call.created /\ call.posts = 1)
          /\ "getSub" \in bootFail => (~call.keyFetched /\ ~call.created)
          /\ "decode" \in bootFail => (~call.created /\ call.posts = 0)
          /\ "subscribe" \in bootFail => (~call.created /\ call.posts = 0)

\* C29 as stated: the subscription flow is ordered, each step after the
\* success of its predecessor, and a failure at any step, the key fetch
\* included, means that none of the later steps is performed in that run.
C29_FlowOrderStrict ==
    /\ FlowInOrder
    /\ \A i \in InitCalls :
          "key" \in bootFail => (~subLog[i].created /\ subLog[i].posts = 0)

\* C29, amended: the subscription flow is ordered, each step after its
\* predecessor, and a failure at any step but the key fetch ends the run;
\* after a key fetch that supplied no key the run either goes on with the
\* hardcoded key or ends.
C29_FlowOrder ==
    /\ FlowInOrder
    /\ \A i \in InitCalls :
          ("key" \in bootFail /\ subLog[i].created) => subLog[i].keyFetched

\* The key fetch failed, and the subscription was created with the
\* hardcoded key and registered with the server.
C29_Witness ==
    /\ InitCalls # {}
    /\ "key" \in bootFail
    /\ \A i \in InitCalls : subLog[i].created /\ subLog[i].posts = 1
    /\ serverSubs = 1


\* C30: subscription gating: the bootstrap of init() looks for, creates
\* or posts a subscription and fetches the key only with the push APIs
\* present, the service worker registered and the permission 'granted';
\* without the APIs nothing is registered and no permission is asked for;
\* with the permission 'denied' no prompt is open and no subscription is
\* attempted; and while nobody has called subscribeToPush() no request
\* for the key and no subscription POST has been issued.
C30_SubscriptionGating ==
    /\ InitCalls # {} =>
          (page.pushApis /\ serviceWorkerRegistration /\ permission = "granted")
    /\ ~page.pushApis =>
          /\ ~serviceWorkerRegistration /\ ~pushSupported
          /\ initPc \in {"booted", "done"}
          /\ bootFail = {"unsupported"}
          /\ InitCalls = {}
    /\ permission = "denied" => (initPc # "prompting" /\ InitCalls = {})
    /\ initPc = "prompting" => (page.pushApis /\ permission = "default")
    /\ subLog = <<>> => requested \cap {KeyRequest, SubscribeRequest} = {}

\* The worker is registered and the permission denied: init() has gone on
\* to its poll without a subscription attempt.
C30_Witness ==
    /\ page.pushApis /\ serviceWorkerRegistration
    /\ permission = "denied"
    /\ initPc = "done"
    /\ subLog = <<>>
    /\ requested = {CountRequest}


\* The branch of the push listener an event takes: no data, the JSON
\* branch, or the catch branch (the text does not parse, or it parses to
\* null, whose properties cannot be read).
PushBranch(ev) ==
    IF ~ev.present THEN "noData"
    ELSE IF ev.parsed.ok /\ CanReadProps(ev.parsed.val) THEN "json"
    ELSE "catch"

\* C31: the push event is held open until the display completes: in every
\* branch of the listener (no data, JSON, catch) each showNotification
\* promise of a handled push event is registered with the event's
\* waitUntil, and the listener returns normally, so that no display is
\* pending on an event that is no longer held.
C31_PushHeldUntilShown ==
    swPushes > 0 =>
        /\ PushBranch(lastPush.event) \in {"noData", "json", "catch"}
        /\ ~lastPush.threw
        /\ Len(lastPush.shown) >= 1
        /\ lastPush.held = Len(lastPush.shown)

C31_Witness ==
    /\ swPushes = 2
    /\ PushBranch(lastPush.event) = "catch"
    /\ lastPush.event.text = "null"
    /\ lastPush.held = 1


\* C35: every notification the PushAgent displays carries exactly the two
\* default actions 'explore' and 'close', in that order, and the default
\* badge and vibration pattern, whatever the payload; a payload field named
\* actions, badge or vibrate is found in the data bag only, with the
\* payload's value; and the action of every notificationclick event is
\* 'explore', 'close' or none (the empty string).
OptionNames == {"actions", "badge", "vibrate"}

C35_DefaultActionsOnly ==
    /\ swPushes > 0 =>
          \A i \in DOMAIN lastPush.shown :
             LET n == lastPush.shown[i] IN
             /\ n.actions = DefaultActions
             /\ ActionNames(n) = <<"explore", "close">>
             /\ n.badge = DefaultBadge
             /\ n.vibrate = DefaultVibrate
             /\ IsObjectPayload =>
                   \A k \in OptionNames \cap DOMAIN lastPush.event.parsed.val.f :
                      /\ k \in DOMAIN n.data
                      /\ n.data[k] = lastPush.event.parsed.val.f[k]
    /\ \A i \in DOMAIN swOpen : swOpen[i] = <<"explore", "close">>
    /\ swClicks > 0 => lastClick.action \in {"explore", "close", ""}

C35_Witness ==
    /\ IsObjectPayload
    /\ OptionNames \subseteq DOMAIN lastPush.event.parsed.val.f
    /\ lastPush.shown[1].data["actions"] = PayloadActionsValue
    /\ lastPush.shown[1].actions = DefaultActions
    /\ swClicks > 0
    /\ lastClick.action = "close"


\* C36: the service worker never answers an API request from its cache:
\* every intercepted request to an API route, whatever its method and
\* whether the network is up or not, is handed to the network, exactly once,
\* and answered with the network's outcome; and every GET request for one of
\* the four manifest URLs, the application root included, is answered by an
\* activated worker with the copy stored at install, without a network
\* request.
C36_ApiNeverFromCache ==
    /\ \A e \in swCaches.entries : e.url \notin ApiUrls
    /\ lastFetch.ran =>
          /\ lastFetch.req.url \in ApiUrls =>
                /\ lastFetch.network = <<lastFetch.req>>
                /\ lastFetch.response.from = "network"
                /\ lastFetch.response.ok <=> lastFetch.net = "up"
          /\ (lastFetch.req.method = "GET"
                 /\ lastFetch.req.url \in Range(urlsToCache)) =>
                /\ lastFetch.network = <<>>
                /\ lastFetch.response.from = "cache"
                /\ [cache |-> CACHE_NAME, url |-> lastFetch.req.url]
                       \in swCaches.entries

C36_Witness ==
    /\ lastFetch.ran
    /\ lastFetch.req = [method |-> "GET", url |-> "/api/notifications/count"]
    /\ lastFetch.net = "up"
    /\ lastFetch.response = [from |-> "network", url |-> "/api/notifications/count",
                             ok |-> TRUE]
    /\ lastSync.ran


(***************************************************************************)
(* Claims about several tabs and the badge (checked under TabsSpec)        *)
(***************************************************************************)
TabDisplayed(t) == Displayed(tabs[t].badgeText, tabs[t].badgeDisplay)

\* C32: tabs poll independently and converge: a step changes the stored
\* count, the badge and the requests of one tab at most; a tab may show a
\* count the server no longer has; and a tab whose last successful count
\* response was made by the server in its present state (no change of the
\* unread count since) shows the server's unread count.
C32_TabsConverge ==
    /\ [](\A t \in Tabs :
             tabs[t].seen = serverVersion => TabDisplayed(t) = serverUnread)
    /\ [][\E t \in Tabs : \A u \in Tabs \ {t} : tabs'[u] = tabs[u]]_vars

C32_Witness ==
    /\ tabs[1].marking = "ok"
    /\ serverVersion = 1
    /\ serverUnread = 1
    /\ tabs[1].seen = 0
    /\ TabDisplayed(1) = 2
    /\ tabs[2].seen = 1
    /\ TabDisplayed(2) = 1

\* C37: badge consistency on a page with the badge element: the badge is
\* visible exactly when the stored unread count is above 0, a visible badge
\* shows the stored count, and the class notification-badge-animate is put
\* on the badge only by an update whose count is above the count stored
\* before it.
C37_BadgeConsistent ==
    /\ [](\A t \in Tabs :
             /\ tabs[t].badgeDisplay = "inline-block" <=>
                    tabs[t].notificationCount > 0
             /\ tabs[t].badgeDisplay = "inline-block" =>
                    tabs[t].badgeText = tabs[t].notificationCount)
    /\ [][\A t \in Tabs :
             (~tabs[t].animate /\ tabs'[t].animate) =>
                 tabs'[t].notificationCount > tabs[t].notificationCount]_vars

C37_Witness ==
    /\ tabs[1].animate
    /\ tabs[1].notificationCount = 1
    /\ tabs[1].badgeDisplay = "inline-block"
    /\ tabs[2].seen = 1
    /\ tabs[2].notificationCount = 0
    /\ tabs[2].badgeDisplay = "none"
    /\ tabs[2].badgeText = 1
    /\ ~tabs[2].animate


(***************************************************************************)
(* Claims about the console (checked under LogSpec)                        *)
(***************************************************************************)
\* A failure of an operation: the request was rejected, the status is not
\* 2xx, or the response does not say success (the key fetch: the response
\* gives no key).
Failed(e) ==
    CASE e.op \in {"count"} -> e.kind # "success"
      [] e.op = "list" -> e.kind \notin {"success", "noArray"}
      [] e.op = "key" -> e.kind \notin {"key", "badKey"}
      [] OTHER -> e.kind # "ok"

\* C34: every failure of a count poll, list fetch, mark-one-read,
\* mark-all-read, key fetch or subscription POST (request rejected, status
\* not 2xx, success flag false) writes a console entry and leaves the UI as
\* it was.
C34_FailuresLogged ==
    \A e \in consoleLog : Failed(e) => (e.logged /\ ~e.ui)


(***************************************************************************)
(* Claims about the dropdown opened again (checked under RaceSpec)         *)
(***************************************************************************)
ListSettles == Len(listSnaps') = Len(listSnaps) - 1

\* C33: a list fetch that does not end in a response saying success
\* (rejected, not parseable, success flag false) leaves the dropdown
\* content as it was; every click on the dropdown issues a list request;
\* and the click is possible whatever the fetches before it ended in.
C33_FailedListKeepsContent ==
    /\ [][(ListSettles /\ listOk' = "no") =>
             UNCHANGED <<listView, listRenders, lastList>>]_vars
    /\ [][opens' = opens + 1 =>
             /\ listInFlight' = listInFlight + 1
             /\ ListRequest \in requested']_vars
    /\ []((listenerAttached /\ opens < MaxReopens) => ENABLED DropdownReopen)

C33_Witness ==
    /\ opens = 2
    /\ listInFlight = 0
    /\ listOk = "no"
    /\ listRenders = 1
    /\ listView.kind = "items"
    /\ Len(listView.items) = 2

\* C38: read state does not regress in the dropdown: while the last
\* markNotificationRead(id) has succeeded and the element of record id is
\* shown as read, no rendering shows it as unread, also not the rendering of
\* a list response whose request was out when the PUT was issued.
ShownAs(view, id, cls) ==
    \E i \in DOMAIN view.items : view.items[i].id = id /\ view.items[i].cls = cls

C38_ReadStaysRead ==
    [][\A id \in MarkableIds :
          (lastMark.outcome = "ok" /\ lastMark.id = id
             /\ ShownAs(listView, id, "read")) =>
              ~ShownAs(listView', id, "unread")]_vars

=============================================================================
